---- MODULE Spec2Model ----
(***************************************************************************)
(* Time-partitioned, paginated log search of the logs composable (useLogs) *)
(* of the web client: buildSearch, getQueryPartitions,                     *)
(* refreshPartitionPagination, getQueryData, getPaginatedData and          *)
(* getHistogramQueryData, modelled as a state machine over searchObj.      *)
(*                                                                         *)
(* Timestamps are microseconds.  They exceed 32 bits, so a timestamp t is  *)
(* kept as the pair <<t \div 10^6, t % 10^6>> and compared and subtracted  *)
(* digit-wise; no value is truncated.                                      *)
(***************************************************************************)
EXTENDS Integers, Sequences, FiniteSets, TLC

\* ------------------------------------------------------------------ bounds
MaxParts == 5
MaxPlannerParts == 3
MaxPlannerTotal == 3
MaxExecParts == 2
MaxTotal == 1
MaxPage == 2
MaxLiveParts == 1
MaxInFlight == 2
MaxUuids == 1
MaxNodes == 1
MaxEdges == 2

\* ------------------------------------------------- wide (microsecond) time
Micro == 1000000

Time(sec, usec) == <<sec, usec>>

TimeGT(a, b) == a[1] > b[1] \/ (a[1] = b[1] /\ a[2] > b[2])

TimeGE(a, b) == ~TimeGT(b, a)

\* a - b for a >= b
TimeSub(a, b) ==
  IF a[2] >= b[2] THEN <<a[1] - b[1], a[2] - b[2]>>
  ELSE <<a[1] - b[1] - 1, a[2] + Micro - b[2]>>

Min(a, b) == IF a < b THEN a ELSE b

\* Math.ceil(total / rowsPerPage); -1 / rowsPerPage rounds up to (-)0
CeilDiv(total, R) == IF total <= 0 THEN 0 ELSE (total + R - 1) \div R

\* ------------------------------------------- refreshPartitionPagination
RECURSIVE SumSizes(_)
SumSizes(page) ==
  IF page = <<>> THEN 0 ELSE page[1].size + SumSizes(Tail(page))

\* if (!paginations[pageNumber]) paginations[pageNumber] = [];
EnsurePage(pag, pageNumber) ==
  IF pageNumber + 1 > Len(pag) THEN Append(pag, <<>>) ELSE pag

PushSlice(pag, pageNumber, slice) ==
  [pag EXCEPT ![pageNumber + 1] = Append(@, slice)]

PageSlice(item, from, size) ==
  [startTime |-> item[1], endTime |-> item[2], from |-> from, size |-> size]

\* lines 701-710: a last page that is not full is topped off
TopOffNever(pageNumber, lastPartitionSize, R, recordSize) == recordSize

TopOff(pageNumber, lastPartitionSize, R, recordSize) ==
  IF pageNumber > 0 /\ lastPartitionSize # R
  THEN R - lastPartitionSize ELSE recordSize

\* the for loop over the pages of a partition whose total gives totalPages > 0
RECURSIVE KnownPartitionLoop(_, _, _, _, _, _, _, _)
KnownPartitionLoop(pag, pageNumber, item, total, R, cp, i, partitionFrom) ==
  LET totalPages == CeilDiv(total, R)
  IN IF i >= totalPages THEN [pag |-> pag, pageNumber |-> pageNumber]
     ELSE
       LET recordSize0 ==
             IF i = totalPages - 1
             THEN (IF total - partitionFrom # 0 THEN total - partitionFrom ELSE R)
             ELSE R
           lastPartitionSize ==
             IF pageNumber > 0 THEN SumSizes(pag[Len(pag)]) ELSE 0
           recordSize == TopOff(pageNumber, lastPartitionSize, R, recordSize0)
           pag1 == PushSlice(EnsurePage(pag, pageNumber), pageNumber,
                             PageSlice(item, partitionFrom, Min(recordSize, R)))
           pageNumber1 ==
             IF recordSize = R \/ lastPartitionSize + recordSize = R
             THEN pageNumber + 1 ELSE pageNumber
       IN IF Len(pag1) > cp + 10
          THEN [pag |-> pag1, pageNumber |-> pageNumber1]
          ELSE KnownPartitionLoop(pag1, pageNumber1, item, total, R, cp,
                                  i + 1, partitionFrom + recordSize)

UnknownPartitionStepFull(pag, pageNumber, item, R) ==
  [pag |-> PushSlice(pag, pageNumber, PageSlice(item, 0, R)),
   pageNumber |-> pageNumber + 1]

\* the else branch: totalPages is 0 (total -1 or total 0)
UnknownPartitionStep(pag, pageNumber, item, R) ==
  LET lastPartitionSize == SumSizes(pag[Len(pag)])
      recordSize ==
        IF lastPartitionSize # R THEN R - lastPartitionSize ELSE R
  IN [pag |-> PushSlice(pag, pageNumber, PageSlice(item, 0, recordSize)),
      pageNumber |-> pageNumber + 1]

\* one call of the forEach callback
PartitionStep(st, item, total, R, cp) ==
  LET pag0 == EnsurePage(st.pag, st.pageNumber)
  IN IF CeilDiv(total, R) > 0
     THEN KnownPartitionLoop(pag0, st.pageNumber, item, total, R, cp, 0, 0)
     ELSE UnknownPartitionStep(pag0, st.pageNumber, item, R)

\* partitions.forEach(...): "return true" leaves the callback only, every
\* partition is visited
RECURSIVE ForEachPartition(_, _, _, _, _, _)
ForEachPartition(st, partitions, partitionTotal, R, cp, index) ==
  IF index > Len(partitions) THEN st
  ELSE ForEachPartition(
         PartitionStep(st, partitions[index], partitionTotal[index], R, cp),
         partitions, partitionTotal, R, cp, index + 1)

RebuildStartKeep(old) == old

\* the plan the rebuild starts from: partitionDetail.paginations = []
RebuildStart(old) == <<>>

Rebuild(old, partitions, partitionTotal, R, cp) ==
  ForEachPartition([pag |-> RebuildStart(old), pageNumber |-> 0],
                   partitions, partitionTotal, R, cp, 1).pag

\* the memoisation guard: paginations.length <= currentPage + 3
RebuildNeeded(pag, cp) == Len(pag) <= cp + 3

refreshPartitionPagination(detail, R, cp) ==
  IF RebuildNeeded(detail.paginations, cp)
  THEN [detail EXCEPT !.paginations =
          Rebuild(detail.paginations, detail.partitions,
                  detail.partitionTotal, R, cp)]
  ELSE detail

\* -------------------------------------------------------------------- state
VARIABLES
  swCache,           \* service worker: URLs stored in the cache cacheVersion
  cacheNames,        \* service worker: names of the caches of the origin
  refreshInterval,   \* meta.refreshInterval, seconds; 0 is off
  timerOn,           \* the interval timer of refreshData is set
  streamLists,       \* data.stream.streamLists has entries
  rowsPerPage,       \* meta.resultGrid.rowsPerPage
  showHistogram,     \* meta.showHistogram
  sql_base64_enabled,  \* store.state.zoConfig.sql_base64_enabled
  sqlMode,           \* meta.sqlMode
  sqlLimit,          \* the LIMIT clause of data.query, as the parser reads it
  currentPage,       \* data.resultGrid.currentPage
  datetime,          \* data.datetime (absolute), startTime and endTime
  chartInterval,     \* meta.resultGrid.chartInterval
  chartKeyFormat,    \* meta.resultGrid.chartKeyFormat
  partitions,        \* queryResults.partitionDetail.partitions
  partitionTotal,    \* queryResults.partitionDetail.partitionTotal
  paginations,       \* queryResults.partitionDetail.paginations
  hits,              \* queryResults.hits, one element per response chunk
  scan_size,         \* queryResults.scan_size; 0 while it is not set
  took,              \* queryResults.took; 0 while it is not set
  subpage,           \* queryResults.subpage
  aggs,              \* queryResults.aggs is defined
  errorMsg,          \* data.errorMsg
  errorCode,         \* data.errorCode
  loading,           \* searchObj.loading
  loadingHistogram,  \* searchObj.loadingHistogram
  partReqs,          \* partition requests in flight (getQueryData suspended)
  searchReqs,        \* search requests in flight
  histReqs,          \* histogram requests in flight
  defaultPipelineObj,        \* useDnD: the shared default pipeline object
  dialogObj,                 \* useDnD: dialogObj.data of the shared dialog
  currentSelectedPipeline,   \* pipelineObj.currentSelectedPipeline
  pipelineWithoutChange,     \* pipelineObj.pipelineWithoutChange
  currentSelectedNodeData,   \* pipelineObj.currentSelectedNodeData
  draggedNode,               \* pipelineObj.draggedNode
  dirtyFlag,                 \* pipelineObj.dirtyFlag
  isEditPipeline,            \* pipelineObj.isEditPipeline
  isEditNode,                \* pipelineObj.isEditNode
  hasInputNode,              \* pipelineObj.hasInputNode
  edgesChange,               \* pipelineObj.edgesChange
  uuids,                     \* identifiers getUUID has handed out
  nodeEdited,        \* history: addNode changed a node of the edited pipeline
  lastOp             \* the operation that ran last

vars == <<swCache, cacheNames, refreshInterval, timerOn, streamLists, rowsPerPage,
          showHistogram, sql_base64_enabled,
          sqlMode, sqlLimit, currentPage, datetime, chartInterval, chartKeyFormat,
          partitions, partitionTotal, paginations, hits, scan_size, took,
          subpage, aggs, errorMsg, errorCode, loading, loadingHistogram,
          partReqs, searchReqs, histReqs, defaultPipelineObj, dialogObj,
          currentSelectedPipeline, pipelineWithoutChange,
          currentSelectedNodeData, draggedNode, dirtyFlag, isEditPipeline,
          isEditNode, hasInputNode, edgesChange, uuids, nodeEdited, lastOp>>

liveVars == <<refreshInterval, timerOn>>
planVars == <<partitions, partitionTotal, paginations>>
chartVars == <<chartInterval, chartKeyFormat>>
reqVars == <<partReqs, searchReqs, histReqs>>
configVars == <<showHistogram, sql_base64_enabled>>
pipeVars == <<defaultPipelineObj, dialogObj, currentSelectedPipeline,
              pipelineWithoutChange, currentSelectedNodeData, draggedNode,
              dirtyFlag, isEditPipeline, isEditNode, hasInputNode,
              edgesChange, uuids, nodeEdited>>

\* ---------------------------------------------------------------- buildSearch
Undefined == "undefined"
UndefinedCode == -1

LadderSwapped ==
  << [t |-> Time(60 * 30, 0),    interval |-> "15 second", format |-> "HH:mm:ss"],
     [t |-> Time(60 * 60, 0),    interval |-> "30 second", format |-> "HH:mm:ss"],
     [t |-> Time(3600 * 2, 0),   interval |-> "1 minute",  format |-> "MM-DD HH:mm"],
     [t |-> Time(3600 * 6, 0),   interval |-> "5 minute",  format |-> "MM-DD HH:mm"],
     [t |-> Time(3600 * 24, 0),  interval |-> "30 minute", format |-> "MM-DD HH:mm"],
     [t |-> Time(86400 * 30, 0), interval |-> "1 day",     format |-> "YYYY-MM-DD"],
     [t |-> Time(86400 * 7, 0),  interval |-> "1 hour",    format |-> "MM-DD HH:mm"] >>

\* the ladder of if statements, in source order
Ladder ==
  << [t |-> Time(60 * 30, 0),    interval |-> "15 second", format |-> "HH:mm:ss"],
     [t |-> Time(60 * 60, 0),    interval |-> "30 second", format |-> "HH:mm:ss"],
     [t |-> Time(3600 * 2, 0),   interval |-> "1 minute",  format |-> "MM-DD HH:mm"],
     [t |-> Time(3600 * 6, 0),   interval |-> "5 minute",  format |-> "MM-DD HH:mm"],
     [t |-> Time(3600 * 24, 0),  interval |-> "30 minute", format |-> "MM-DD HH:mm"],
     [t |-> Time(86400 * 7, 0),  interval |-> "1 hour",    format |-> "MM-DD HH:mm"],
     [t |-> Time(86400 * 30, 0), interval |-> "1 day",     format |-> "YYYY-MM-DD"] >>

ThresholdMetStrict(d, t) == TimeGT(d, t)

\* if (req.query.end_time - req.query.start_time >= threshold)
ThresholdMet(d, t) == TimeGE(d, t)

\* the if statements run one after the other, each overwriting the last
RECURSIVE ApplyLadder(_, _, _)
ApplyLadder(d, k, cur) ==
  IF k > Len(Ladder) THEN cur
  ELSE ApplyLadder(d, k + 1,
         IF ThresholdMet(d, Ladder[k].t)
         THEN [interval |-> Ladder[k].interval, format |-> Ladder[k].format]
         ELSE cur)

SelectInterval(d) ==
  ApplyLadder(d, 1, [interval |-> "10 second", format |-> "HH:mm:ss"])

\* meta.showHistogram of defaultObject, and meta.sqlMode
ShowHistogram == showHistogram
SqlMode == sqlMode

\* parsedSQL.limit of a query without LIMIT, with LIMIT 10 and with
\* LIMIT 10 OFFSET 5
NoLimit == [limit |-> FALSE, size |-> 0, seperator |-> "", offset |-> 0]

SqlLimits ==
  { NoLimit,
    [limit |-> TRUE, size |-> 10, seperator |-> "", offset |-> 0],
    [limit |-> TRUE, size |-> 10, seperator |-> "offset", offset |-> 5] }

\* the statement of SQL mode carries a LIMIT
HasLimit == SqlMode /\ sqlLimit.limit

\* req.query.from: rowsPerPage * (currentPage - 1) || 0, or the OFFSET
BuiltFrom(cp) ==
  IF HasLimit /\ sqlLimit.seperator = "offset" THEN sqlLimit.offset
  ELSE rowsPerPage * (cp - 1)

\* req.query.size: rowsPerPage, or the LIMIT
BuiltSize == IF HasLimit THEN sqlLimit.size ELSE rowsPerPage

InvalidRangeNever(dt) == FALSE

\* if (timestamps.startTime > timestamps.endTime) return false
InvalidRange(dt) == TimeGT(dt.startTime, dt.endTime)

\* lines 607-616: with sql_base64_enabled the histogram query of page 1 is
\* encoded out of SQL mode, also when req.aggs was deleted for showHistogram
\* === false (lines 584-588)
EncodesDeletedAggs(cp) ==
  sql_base64_enabled /\ ~SqlMode /\ cp = 1 /\ ~ShowHistogram

\* what buildSearch returns and what it leaves in meta.resultGrid and in
\* queryResults.hits
buildSearch(dt, cp, oldInterval, oldFormat) ==
  IF InvalidRange(dt)
  THEN [kind |-> "false", track_total_hits |-> FALSE, aggs |-> FALSE,
        interval |-> oldInterval, format |-> oldFormat,
        from |-> 0, size |-> 0, clearsHits |-> FALSE]
  ELSE LET sel == SelectInterval(TimeSub(dt.endTime, dt.startTime))
       IN IF EncodesDeletedAggs(cp)
          THEN \* TypeError, catch block: "Invalid SQL Syntax", no return value
               [kind |-> Undefined, track_total_hits |-> FALSE,
                aggs |-> FALSE, interval |-> sel.interval,
                format |-> sel.format, from |-> 0, size |-> 0,
                clearsHits |-> HasLimit]
          ELSE
          [kind |-> "req",
           track_total_hits |-> (cp = 1 /\ (~ShowHistogram \/ SqlMode)),
           aggs |-> ~(SqlMode \/ cp > 1 \/ ~ShowHistogram),
           interval |-> sel.interval, format |-> sel.format,
           from |-> BuiltFrom(cp), size |-> BuiltSize,
           \* queryResults.hits = [] when a LIMIT was folded in
           clearsHits |-> HasLimit]

\* ------------------------------------------------------------ error mapping
\* logsErrorMessage (utils/common): code -> message key, "" without an entry
logsErrorMessage(code) ==
  IF code = 20003 THEN "search.message.fullTextSearchFieldNotSet" ELSE ""

\* t(key) of vue-i18n: the message of the locale file, the key itself when
\* the locale file has no entry
Translate(key) ==
  IF key = "search.message.fullTextSearchFieldNotSet"
  THEN "Click here to configure a full text search field to the stream."
  ELSE key

\* what the backend or the HTTP client can hand to a catch handler: a response
\* body with an error string; a body with a code only; a body with neither
\* (the answer of a gateway); no response at all
ErrorInputs ==
  { [response |-> TRUE, error |-> "Query Error", code |-> 400, message |-> "Request failed"],
    [response |-> TRUE, error |-> Undefined, code |-> 20003, message |-> "Request failed"],
    [response |-> TRUE, error |-> Undefined, code |-> UndefinedCode, message |-> "Request failed"],
    [response |-> FALSE, error |-> Undefined, code |-> UndefinedCode, message |-> "Network Error"] }

ErrCode(err) == IF err.response THEN err.code ELSE UndefinedCode

ErrMsgRaw(err) == IF err.response THEN err.error ELSE err.message

\* the errorMsg the catch handlers leave
ErrMsg(err) ==
  LET customMessage == logsErrorMessage(ErrCode(err))
  IN IF customMessage # "" THEN Translate(customMessage)
     ELSE IF err.response THEN err.error ELSE err.message

\* the TypeError a handler raises when it reads a page the plan does not have
TypeErrorInput ==
  [response |-> FALSE, error |-> Undefined, code |-> UndefinedCode,
   message |-> "Cannot read properties of undefined"]

\* no request was handed to the step
NoRequest == [url |-> "", method |-> ""]

\* no connection was handed to the step
NoConnection == [source |-> "", target |-> ""]

\* fetch() was not called by the step
NoResponse == [resolved |-> FALSE, status |-> 0, type |-> ""]

\* no failure was handed to the step
NoError ==
  [response |-> FALSE, error |-> Undefined, code |-> UndefinedCode,
   message |-> ""]

\* no search request was answered by the step
NoSearchRequest ==
  [start_time |-> Time(0, 0), end_time |-> Time(0, 0), from |-> 0, size |-> 0,
   track_total_hits |-> FALSE, appendResult |-> FALSE, histAggs |-> FALSE,
   stale |-> FALSE]

\* extracted: the step ran extractFields and updateGridColumns;
\* rejected: the step rejected the promise of getQueryData or of
\* getHistogramQueryData; unhandled: no caller handles that rejection
Op(name) ==
  [op |-> name, isPagination |-> FALSE, invalid |-> FALSE, rebuilt |-> FALSE,
   stored |-> 0, rep |-> 0, append |-> FALSE, noStream |-> FALSE,
   rejected |-> FALSE, unhandled |-> FALSE, caller |-> "", stale |-> FALSE,
   notification |-> "", err |-> NoError,
   request |-> NoRequest, answer |-> "", fetches |-> 0, posted |-> FALSE,
   answered |-> NoSearchRequest, total |-> -1, extracted |-> FALSE,
   response |-> NoResponse, nodeId |-> "", connection |-> NoConnection,
   histogramBusy |-> FALSE, built |-> ""]

\* the callers of getQueryData: handleQueryData, loadLogsData, the timer
\* callback of refreshData, and the result view paging with isPagination
Callers == {"handleQueryData", "loadLogsData", "refreshData", "view"}

\* the caller sets searchObj.loading = true before the call
SetsLoading(caller) == caller \in {"handleQueryData", "refreshData", "view"}

\* the caller awaits getQueryData inside try / catch; the timer callback of
\* refreshData awaits it outside any try
Catches(caller) == caller # "refreshData"

Rejection(op, caller) ==
  [op EXCEPT !.rejected = TRUE, !.unhandled = ~Catches(caller)]

\* the catch block of getQueryData: an error notification, reject(false)
Caught(op, caller) ==
  [Rejection(op, caller) EXCEPT !.notification = "Error while fetching data"]

\* ------------------------------------------------------- pipeline editor
\* useDnD.js keeps one reactive pipelineObj for the whole application.  Its
\* fields currentSelectedPipeline and pipelineWithoutChange start as
\* references to the module-level defaultPipelineObj, and addNode ends with
\* currentSelectedNodeData as a reference to the module-level dialogObj; a
\* write through such a reference changes the shared object.

Null == "null"

DataKeys == {"label", "node_type", "name"}

\* {} ; dialogObj.data is null at first, and { ...null } is {} as well
EmptyData == [k \in DataKeys |-> Undefined]

\* { ...data, ...newNode }
Merge(data, newNode) ==
  [k \in DataKeys |-> IF newNode[k] # Undefined THEN newNode[k] ELSE data[k]]

\* what the node form hands to addNode
FormInputs == { [EmptyData EXCEPT !["name"] = "a"] }

\* the nodes of the palette, as onDragStart receives them
PaletteNodes ==
  { [io_type |-> "input", subtype |-> "stream"],
    [io_type |-> "default", subtype |-> "function"] }

NoDraggedNode == [io_type |-> Null, subtype |-> Null]

\* getUUID(): the n-th identifier it hands out
Uuid(n) == "uuid" \o ToString(n)

SavedNodeId == "saved0"

\* currentSelectedNodeData is null
NullNode == [obj |-> Null, id |-> Undefined, io_type |-> Undefined,
             data |-> EmptyData]

\* defaultObject.currentSelectedNodeData: an object without id and io_type
InitialNodeData == [obj |-> "own", id |-> Undefined, io_type |-> Undefined,
                    data |-> EmptyData]

\* a reference to dialogObj: its data is read from the shared object
DialogRef == [obj |-> "dialogObj", id |-> Undefined, io_type |-> Undefined,
              data |-> EmptyData]

\* the data of a node object, through the reference when it is dialogObj
DataOf(node, dialog) == IF node.obj = "dialogObj" THEN dialog ELSE node.data

\* a reference to defaultPipelineObj
SharedRef == [shared |-> TRUE, nodes |-> <<>>, edges |-> <<>>]

\* the element console.log(...) leaves in the array literal of onConnect
UndefinedElement ==
  [kind |-> Undefined, id |-> Undefined, source |-> Undefined, target |-> Undefined]

NullElement ==
  [kind |-> Null, id |-> Undefined, source |-> Undefined, target |-> Undefined]

\* `e${connection.source}-${connection.target}`
EdgeId(connection) == "e" \o connection.source \o "-" \o connection.target

NewEdge(connection) ==
  [kind |-> "edge", id |-> EdgeId(connection), source |-> connection.source,
   target |-> connection.target]

\* [...edges, newEdge, console.log(...)]
ConnectedEdges(edges, connection) ==
  edges \o <<NewEdge(connection), UndefinedElement>>

\* the object a pipeline reference points to
Deref(ref, shared) ==
  IF ref.shared THEN shared ELSE [nodes |-> ref.nodes, edges |-> ref.edges]

\* JSON.parse(JSON.stringify(x)) of an edge list: undefined becomes null
JsonEdges(edges) ==
  [i \in DOMAIN edges |->
     IF edges[i].kind = "edge" THEN edges[i] ELSE NullElement]

\* ... and of a node list: every element becomes an object of its own
JsonNodes(nodes, dialog) ==
  [i \in DOMAIN nodes |->
     [nodes[i] EXCEPT !.obj = "own", !.data = DataOf(nodes[i], dialog)]]

\* nodes.some((node) => node.io_type === "input")
HasInputNode(nodes) == \E i \in DOMAIN nodes : nodes[i].io_type = "input"

\* items.map(item => item.id).sort(), compared as JSON: the same identifiers
\* the same number of times
SameIds(items1, items2) ==
  \A id \in {items1[i].id : i \in DOMAIN items1}
             \cup {items2[i].id : i \in DOMAIN items2} :
    Cardinality({i \in DOMAIN items1 : items1[i].id = id})
      = Cardinality({i \in DOMAIN items2 : items2[i].id = id})

comparePipelinesById(pipeline1, pipeline2) ==
  SameIds(pipeline1.nodes, pipeline2.nodes)

\* findIndex((node) => node.id === id), 0 for -1
FindIndex(nodes, id) ==
  IF \E i \in DOMAIN nodes : nodes[i].id = id
  THEN CHOOSE i \in DOMAIN nodes :
         nodes[i].id = id /\ \A j \in 1..(i - 1) : nodes[j].id # id
  ELSE 0

\* the pipeline a saved pipeline is opened from, by the editor view
SavedPipeline ==
  [nodes |-> <<[obj |-> "own", id |-> SavedNodeId, io_type |-> "input",
                data |-> [EmptyData EXCEPT !["label"] = SavedNodeId]]>>,
   edges |-> <<>>]

\* pipelineObj.currentSelectedPipeline, the object
CurrentPipeline == Deref(currentSelectedPipeline, defaultPipelineObj)

\* the identifiers a connection or a deletion can name
KnownNodeIds ==
  {Uuid(n) : n \in 1..uuids} \cup {SavedNodeId}

\* pipelineObj.currentSelectedPipeline.nodes = nodes and .edges = edges: the
\* write goes to defaultPipelineObj while the reference is the shared one
WritePipeline(nodes, edges) ==
  IF currentSelectedPipeline.shared
  THEN /\ defaultPipelineObj' = [nodes |-> nodes, edges |-> edges]
       /\ UNCHANGED currentSelectedPipeline
  ELSE /\ currentSelectedPipeline' =
            [shared |-> FALSE, nodes |-> nodes, edges |-> edges]
       /\ UNCHANGED defaultPipelineObj

\* the variables of the other parts of the client
otherVars == <<swCache, cacheNames, liveVars, streamLists, rowsPerPage, configVars,
               sqlMode, sqlLimit, currentPage, datetime, chartVars, planVars,
               hits, scan_size, took, subpage, aggs, errorMsg, errorCode,
               loading, loadingHistogram, reqVars>>

onDragStart(node) ==
  /\ draggedNode' = node
  /\ currentSelectedNodeData' = NullNode
  /\ lastOp' = Op("onDragStart")
  /\ UNCHANGED <<otherVars, defaultPipelineObj, dialogObj,
                 currentSelectedPipeline, pipelineWithoutChange, dirtyFlag,
                 isEditPipeline, isEditNode, hasInputNode, edgesChange, uuids,
                 nodeEdited>>

\* onDrop: the dropped node becomes the selection; the node form is opened
\* (dialog.name and dialog.show, which no other function here reads).
\* Without a dragged node, draggedNode.io_type is a TypeError after getUUID.
onDrop ==
  /\ uuids < MaxUuids
  /\ uuids' = uuids + 1
  /\ IF draggedNode = NoDraggedNode
     THEN /\ lastOp' = [Op("onDrop") EXCEPT !.unhandled = TRUE]
          /\ UNCHANGED <<currentSelectedNodeData, isEditNode>>
     ELSE /\ currentSelectedNodeData' =
               [obj |-> "own", id |-> Uuid(uuids'),
                io_type |-> draggedNode.io_type,
                data |-> [EmptyData EXCEPT !["label"] = Uuid(uuids'),
                                           !["node_type"] = draggedNode.subtype]]
          /\ isEditNode' = FALSE
          /\ lastOp' = Op("onDrop")
  /\ UNCHANGED <<otherVars, defaultPipelineObj, dialogObj,
                 currentSelectedPipeline, pipelineWithoutChange, draggedNode,
                 dirtyFlag, isEditPipeline, hasInputNode, edgesChange,
                 nodeEdited>>

onEdgesChange(changes) ==
  /\ dirtyFlag' = TRUE
  /\ edgesChange' = IF changes > 0 THEN TRUE ELSE edgesChange
  /\ lastOp' = Op("onEdgesChange")
  /\ UNCHANGED <<otherVars, defaultPipelineObj, dialogObj,
                 currentSelectedPipeline, pipelineWithoutChange,
                 currentSelectedNodeData, draggedNode, isEditPipeline,
                 isEditNode, hasInputNode, uuids, nodeEdited>>

onConnect(connection) ==
  /\ Len(CurrentPipeline.edges) + 2 <= MaxEdges
  /\ WritePipeline(CurrentPipeline.nodes,
                   ConnectedEdges(CurrentPipeline.edges, connection))
  /\ lastOp' = [Op("onConnect") EXCEPT !.connection = connection]
  /\ UNCHANGED <<otherVars, dialogObj, pipelineWithoutChange,
                 currentSelectedNodeData, draggedNode, dirtyFlag,
                 isEditPipeline, isEditNode, hasInputNode, edgesChange, uuids,
                 nodeEdited>>

\* addNode(newNode).  With isEditNode set and no selection the test
\* currentSelectedNode.id is a TypeError, after the flags were written.
addNode(newNode) ==
  LET node == currentSelectedNodeData
      nodes == CurrentPipeline.nodes
      data == Merge(DataOf(node, dialogObj), newNode)
      written == IF node.obj = "dialogObj" THEN node
                 ELSE [node EXCEPT !.data = data]
      index == FindIndex(nodes, node.id)
  IN /\ isEditNode \/ node.obj = Null \/ Len(nodes) < MaxNodes
     /\ dirtyFlag' = IF isEditPipeline THEN TRUE ELSE dirtyFlag
     /\ IF isEditNode /\ node.obj = Null
        THEN /\ lastOp' = [Op("addNode") EXCEPT !.unhandled = TRUE]
             /\ UNCHANGED <<defaultPipelineObj, dialogObj,
                            currentSelectedPipeline, currentSelectedNodeData,
                            isEditNode, nodeEdited>>
        ELSE /\ lastOp' = Op("addNode")
             /\ isEditNode' = FALSE
             /\ currentSelectedNodeData' = DialogRef
             /\ IF node.obj = Null
                THEN UNCHANGED <<defaultPipelineObj, dialogObj,
                                 currentSelectedPipeline, nodeEdited>>
                ELSE /\ dialogObj' = IF node.obj = "dialogObj" THEN data
                                     ELSE dialogObj
                     /\ IF isEditNode
                        THEN /\ WritePipeline(
                                  IF index = 0 THEN nodes
                                  ELSE [nodes EXCEPT ![index] = written],
                                  CurrentPipeline.edges)
                             /\ nodeEdited' =
                                  IF isEditPipeline /\ index # 0 THEN TRUE
                                  ELSE nodeEdited
                        ELSE /\ WritePipeline(Append(nodes, written),
                                              CurrentPipeline.edges)
                             /\ UNCHANGED nodeEdited
     /\ UNCHANGED <<otherVars, pipelineWithoutChange, draggedNode,
                    isEditPipeline, hasInputNode, edgesChange, uuids>>

\* lines 306-311: the flag after the comparison by identifier
DirtyAfterDelete(dirty, equalById, edges) ==
  IF equalById /\ ~edges THEN FALSE
  ELSE IF ~equalById THEN TRUE
  ELSE dirty

\* deletePipelineNode(nodeId).  edge.source of an element that is undefined
\* or null is a TypeError: the node list is written, nothing after it is.
deletePipelineNode(nodeId) ==
  LET old == CurrentPipeline
      keptNodes == SelectSeq(old.nodes, LAMBDA node : node.id # nodeId)
      keptEdges == SelectSeq(old.edges,
                     LAMBDA edge : edge.source # nodeId /\ edge.target # nodeId)
      throws == \E i \in DOMAIN old.edges : old.edges[i].kind # "edge"
      equalById ==
        comparePipelinesById(
          [nodes |-> keptNodes],
          IF pipelineWithoutChange.shared /\ currentSelectedPipeline.shared
          THEN [nodes |-> keptNodes]
          ELSE Deref(pipelineWithoutChange, defaultPipelineObj))
  IN /\ lastOp' = [Op("deletePipelineNode") EXCEPT !.nodeId = nodeId,
                                                   !.unhandled = throws]
     /\ IF throws
        THEN /\ WritePipeline(keptNodes, old.edges)
             /\ UNCHANGED <<currentSelectedNodeData, hasInputNode, dirtyFlag>>
        ELSE /\ WritePipeline(keptNodes, keptEdges)
             /\ currentSelectedNodeData' = NullNode
             /\ hasInputNode' = HasInputNode(keptNodes)
             /\ dirtyFlag' = DirtyAfterDelete(dirtyFlag, equalById, edgesChange)
     /\ UNCHANGED <<otherVars, dialogObj, pipelineWithoutChange, draggedNode,
                    isEditPipeline, isEditNode, edgesChange, uuids,
                    nodeEdited>>

\* resetPipelineData: the pipeline becomes a JSON copy of defaultPipelineObj as
\* it is now, the selection a JSON copy of dialogObj
resetPipelineData ==
  LET copy == defaultPipelineObj
  IN /\ currentSelectedPipeline' =
          [shared |-> FALSE, nodes |-> JsonNodes(copy.nodes, dialogObj),
           edges |-> JsonEdges(copy.edges)]
     /\ currentSelectedNodeData' = [InitialNodeData EXCEPT !.data = dialogObj]
     /\ isEditPipeline' = FALSE
     /\ isEditNode' = FALSE
     /\ dirtyFlag' = FALSE
     /\ hasInputNode' = FALSE
     /\ draggedNode' = NoDraggedNode
     /\ nodeEdited' = FALSE
     /\ lastOp' = Op("resetPipelineData")
     /\ UNCHANGED <<otherVars, defaultPipelineObj, dialogObj,
                    pipelineWithoutChange, edgesChange, uuids>>

\* the editor view opens a saved pipeline for editing: both pipeline fields
\* of pipelineObj receive a copy of it and isEditPipeline is set
OpenSavedPipeline ==
  /\ currentSelectedPipeline' =
       [shared |-> FALSE, nodes |-> SavedPipeline.nodes,
        edges |-> SavedPipeline.edges]
  /\ pipelineWithoutChange' =
       [shared |-> FALSE, nodes |-> SavedPipeline.nodes,
        edges |-> SavedPipeline.edges]
  /\ isEditPipeline' = TRUE
  /\ nodeEdited' = FALSE
  /\ lastOp' = Op("openSavedPipeline")
  /\ UNCHANGED <<otherVars, defaultPipelineObj, dialogObj,
                 currentSelectedNodeData, draggedNode, dirtyFlag, isEditNode,
                 hasInputNode, edgesChange, uuids>>

\* the editor view opens the form of a node of the pipeline: the node becomes
\* the selection and isEditNode is set
OpenNodeForm(i) ==
  /\ i \in DOMAIN CurrentPipeline.nodes
  /\ currentSelectedNodeData' = CurrentPipeline.nodes[i]
  /\ isEditNode' = TRUE
  /\ lastOp' = Op("openNodeForm")
  /\ UNCHANGED <<otherVars, defaultPipelineObj, dialogObj,
                 currentSelectedPipeline, pipelineWithoutChange, draggedNode,
                 dirtyFlag, isEditPipeline, hasInputNode, edgesChange, uuids,
                 nodeEdited>>

InitPipeline ==
  /\ defaultPipelineObj = [nodes |-> <<>>, edges |-> <<>>]
  /\ dialogObj = EmptyData
  /\ currentSelectedPipeline = SharedRef
  /\ pipelineWithoutChange = SharedRef
  /\ currentSelectedNodeData = InitialNodeData
  /\ draggedNode = NoDraggedNode
  /\ dirtyFlag = FALSE
  /\ isEditPipeline = FALSE
  /\ isEditNode = FALSE
  /\ hasInputNode = FALSE
  /\ edgesChange = FALSE
  /\ uuids = 0
  /\ nodeEdited = FALSE

\* ------------------------------------------------------------------- inputs
PageSizes == {2, 250}

\* totals a search response can report
Totals == (0..MaxTotal) \cup {300}

\* totals a slice response reports to the executor: no hit, or one
ExecTotals == {0, 1}

\* the partition with index i, as the backend reports it
PartitionAt(i) == <<Time(0, (i - 1) * 1000), Time(0, i * 1000)>>

\* time ranges of the session: 15 minutes, and a start after the end
SessionRanges ==
  { [startTime |-> Time(0, 0), endTime |-> Time(900, 0)],
    [startTime |-> Time(900, 0), endTime |-> Time(0, 0)] }

RemoveAt(seq, k) == SubSeq(seq, 1, k - 1) \o SubSeq(seq, k + 1, Len(seq))

\* res.data.partitions.sort((a, b) => a[0] - b[0])
RECURSIVE InsertSorted(_, _)
InsertSorted(sorted, item) ==
  IF sorted = <<>> THEN <<item>>
  ELSE IF TimeGT(sorted[1][1], item[1]) THEN <<item>> \o sorted
  ELSE <<sorted[1]>> \o InsertSorted(Tail(sorted), item)

RECURSIVE SortPartitions(_)
SortPartitions(list) ==
  IF list = <<>> THEN <<>>
  ELSE InsertSorted(SortPartitions(Tail(list)), list[1])

InitWith(R) ==
  /\ swCache = {}
  /\ cacheNames = {}
  /\ InitPipeline
  /\ showHistogram = TRUE
  /\ sql_base64_enabled = FALSE
  /\ refreshInterval = 0
  /\ timerOn = FALSE
  /\ streamLists = FALSE
  /\ rowsPerPage = R
  /\ sqlMode = FALSE
  /\ sqlLimit = NoLimit
  /\ currentPage = 1
  /\ datetime = [startTime |-> Time(0, 0), endTime |-> Time(900, 0)]
  /\ chartInterval = "1 second"
  /\ chartKeyFormat = "HH:mm:ss"
  /\ partitions = <<>>
  /\ partitionTotal = <<>>
  /\ paginations = <<>>
  /\ hits = <<>>
  /\ scan_size = 0
  /\ took = 0
  /\ subpage = 0
  /\ aggs = FALSE
  /\ errorMsg = ""
  /\ errorCode = 0
  /\ loading = FALSE
  /\ loadingHistogram = FALSE
  /\ partReqs = <<>>
  /\ searchReqs = <<>>
  /\ histReqs = <<>>
  /\ lastOp = Op("init")

\* the state after construction: rowsPerPage is 250
Init == InitWith(250)

\* ------------------------------------------------------------ getQueryData
\* the first lines of getPaginatedData: track_total_hits follows the total
\* stored at index currentPage - 1
TrackTotalHits(built, totals, cp) ==
  IF cp <= Len(totals)
  THEN (IF totals[cp] = -1 THEN TRUE
        ELSE IF totals[cp] > -1 THEN FALSE ELSE built)
  ELSE built

\* the request getPaginatedData sends for a slice
SliceRequest(slice, tth, append, histAggs) ==
  [start_time |-> slice.startTime, end_time |-> slice.endTime,
   from |-> slice.from, size |-> slice.size,
   track_total_hits |-> tth, appendResult |-> append, histAggs |-> histAggs,
   stale |-> FALSE]

\* stale marks the search requests that were in flight when a newer query
\* started; the code keeps no such mark, it is kept for the properties
MarkStale(reqs) == [i \in 1..Len(reqs) |-> [reqs[i] EXCEPT !.stale = TRUE]]

KeepBuiltPaging(built, slice) ==
  [slice EXCEPT !.from = built.from, !.size = built.size]

\* lines 833-848 and 997-1012: start_time, end_time, from and size of the
\* request at hand are overwritten by those of the slice
OverwritePaging(built, slice) == slice

\* paginations[currentPage - 1][k] can be read
HasSlice(pag, cp, k) == cp <= Len(pag) /\ k <= Len(pag[cp])

FirstRequestsAll(page, tth, histAggs) ==
  [k \in 1..Len(page) |-> SliceRequest(page[k], tth, k > 1, histAggs)]

\* lines 832-852: the requests getQueryData sends for a page: its first slice
FirstRequests(page, tth, histAggs) ==
  <<SliceRequest(page[1], tth, FALSE, histAggs)>>

\* lines 793-852 of getQueryData for a built request, over the plan pag and
\* the totals tot: the first slice of the current page is sent, or reading it
\* throws and the catch block runs
Dispatch(built, pag, tot, cp, setLoading) ==
  /\ errorCode' = 0
  /\ IF HasSlice(pag, cp, 1)
     THEN /\ subpage' = 1
          /\ searchReqs' = searchReqs \o
               FirstRequests([pag[cp] EXCEPT ![1] = OverwritePaging(built, @)],
                             TrackTotalHits(built.track_total_hits, tot, cp),
                             built.aggs)
          /\ loading' = (loading \/ setLoading)
     ELSE /\ loading' = FALSE
          /\ UNCHANGED <<subpage, searchReqs>>

ChainsInFlight == Len(partReqs) + Len(searchReqs)

NoStreamsNever(lists) == FALSE

\* if (!searchObj.data.stream.streamLists?.length)
NoStreams(lists) == ~lists

\* getQueryData(isPagination), called by caller
getQueryData(isPagination, caller) ==
  LET built == buildSearch(datetime, currentPage, chartInterval, chartKeyFormat)
      op == [Op("getQueryData") EXCEPT !.isPagination = isPagination,
                                       !.invalid = InvalidRange(datetime),
                                       !.caller = caller]
  IN IF NoStreams(streamLists)
     THEN \* the stream list is empty: loading = false, reject(false), return
          /\ loading' = FALSE
          /\ lastOp' = Rejection([op EXCEPT !.noStream = TRUE], caller)
          /\ UNCHANGED <<swCache, cacheNames, liveVars, streamLists, rowsPerPage, pipeVars, configVars, sqlMode, sqlLimit, currentPage, datetime,
                         chartVars, planVars, hits, scan_size, took, subpage, aggs, errorMsg,
                         errorCode, loadingHistogram, reqVars>>
     ELSE
     /\ chartInterval' = built.interval
     /\ chartKeyFormat' = built.format
     /\ hits' = IF built.clearsHits THEN <<>> ELSE hits
     /\ UNCHANGED <<swCache, cacheNames, liveVars, streamLists, rowsPerPage, pipeVars, configVars, sqlMode, sqlLimit, datetime, partitions,
                    partitionTotal, paginations, scan_size, took, aggs, loadingHistogram,
                    histReqs>>
     /\ IF ~isPagination
        THEN \* resetQueryData, then getQueryPartitions(queryReq)
             /\ currentPage' = 1
             /\ errorMsg' = ""
             /\ UNCHANGED <<errorCode, subpage>>
             /\ IF built.kind = "req"
                THEN /\ partReqs' = Append(partReqs,
                          [track_total_hits |-> built.track_total_hits,
                           aggs |-> built.aggs, from |-> built.from,
                           size |-> built.size, caller |-> caller])
                     /\ searchReqs' = MarkStale(searchReqs)
                     /\ loading' = (loading \/ SetsLoading(caller))
                     /\ lastOp' = op
                ELSE \* queryReq.query throws, catch block
                     /\ loading' = FALSE
                     /\ lastOp' = Caught(op, caller)
                     /\ UNCHANGED <<partReqs, searchReqs>>
        ELSE /\ UNCHANGED <<currentPage, errorMsg, partReqs>>
             /\ IF built.kind = "req"
                THEN /\ Dispatch(built, paginations, partitionTotal,
                                 currentPage, SetsLoading(caller))
                     /\ lastOp' = IF HasSlice(paginations, currentPage, 1)
                                  THEN op ELSE Caught(op, caller)
                ELSE IF built.kind = Undefined
                THEN \* queryReq != null is false: loading = false, reject
                     /\ loading' = FALSE
                     /\ lastOp' = Rejection(op, caller)
                     /\ UNCHANGED <<errorCode, subpage, searchReqs>>
                ELSE \* errorCode = 0, then queryReq.query throws, catch block
                     /\ errorCode' = 0
                     /\ loading' = FALSE
                     /\ lastOp' = Caught(op, caller)
                     /\ UNCHANGED <<subpage, searchReqs>>

\* the plan getQueryPartitions builds: one page of one slice per partition
InitialPaginations(parts, R) ==
  [i \in 1..Len(parts) |-> <<PageSlice(parts[i], 0, R)>>]

\* the partition response of request k: the then callback of
\* getQueryPartitions, then the rest of getQueryData
PartitionResponse(k, list) ==
  LET sorted == SortPartitions(list)
      pag == InitialPaginations(sorted, rowsPerPage)
      tot == [i \in 1..Len(sorted) |-> -1]
  IN /\ k \in 1..Len(partReqs)
     /\ partitions' = sorted
     /\ partitionTotal' = tot
     /\ paginations' = pag
     /\ partReqs' = RemoveAt(partReqs, k)
     /\ Dispatch(partReqs[k], pag, tot, currentPage, FALSE)
     /\ lastOp' = IF HasSlice(pag, currentPage, 1)
                  THEN Op("partitionResponse")
                  ELSE Caught(Op("partitionResponse"), partReqs[k].caller)
     /\ UNCHANGED <<swCache, cacheNames, liveVars, streamLists, rowsPerPage, pipeVars, configVars, sqlMode, sqlLimit, currentPage, datetime, chartVars, hits, scan_size, took, aggs,
                    errorMsg, loadingHistogram, histReqs>>

\* the partition request k fails: the await throws, catch block
PartitionFail(k) ==
  /\ k \in 1..Len(partReqs)
  /\ partReqs' = RemoveAt(partReqs, k)
  /\ loading' = FALSE
  /\ lastOp' = Caught(Op("partitionFail"), partReqs[k].caller)
  /\ UNCHANGED <<swCache, cacheNames, liveVars, streamLists, rowsPerPage, pipeVars, configVars, sqlMode, sqlLimit, currentPage, datetime, chartVars, planVars,
                 hits, scan_size, took, subpage, aggs, errorMsg, errorCode, loadingHistogram,
                 searchReqs, histReqs>>

\* --------------------------------------------------------- getPaginatedData
StoreIndexAny(parts, tot, req) ==
  IF \E i \in 1..Len(parts) : req.start_time = parts[i][1]
  THEN CHOOSE i \in 1..Len(parts) : req.start_time = parts[i][1]
  ELSE 0

\* the index whose total the response stores: total still -1 and
\* queryReq.query.start_time == item[0]; 0 when there is none
StoreIndex(parts, tot, req) ==
  IF \E i \in 1..Len(parts) : tot[i] = -1 /\ req.start_time = parts[i][1]
  THEN CHOOSE i \in 1..Len(parts) : tot[i] = -1 /\ req.start_time = parts[i][1]
  ELSE 0

\* the records the backend returns for req when the partition of the slice
\* holds total matching records: those from req.from on, at most req.size
HitCount(req, total) ==
  IF total - req.from <= 0 \/ req.size <= 0 THEN 0
  ELSE Min(req.size, total - req.from)

\* res.data.hits, kept as one chunk naming the slice it answers and the
\* number n of its records; no chunk when there is no record
ResponseHits(req, total) ==
  IF HitCount(req, total) = 0 THEN <<>>
  ELSE <<[startTime |-> req.start_time, from |-> req.from, size |-> req.size,
          n |-> HitCount(req, total)]>>

\* res.data.scan_size and res.data.took: the scan covers the matching records
\* and at least one file, and takes time
ResponseScanSize(total) == total + 1

ResponseTook(total) == 1

\* lines 938-990: res.data.from > 0 appends when appendResult is set and
\* replaces otherwise; from = 0 replaces, in live refresh over existing hits
\* (line 967) and outside it (lines 985-988)
MergeHits(old, req, total) ==
  IF req.from > 0
  THEN (IF req.appendResult THEN old \o ResponseHits(req, total)
        ELSE ResponseHits(req, total))
  ELSE IF refreshInterval > 0 /\ old # <<>>
  THEN ResponseHits(req, total)
  ELSE ResponseHits(req, total)

\* lines 952-963: a response with from = 0 that arrives in live refresh over
\* existing hits sets queryResults.aggs = res.data.aggs, and the response of
\* a slice request, which carries no aggs, has none
MergeAggs(old, oldHits, req) ==
  IF req.from = 0 /\ refreshInterval > 0 /\ oldHits # <<>> THEN FALSE ELSE old

HistogramWantedWhileLoading(aggsDefined, cp, loadingHist) ==
  /\ (~aggsDefined \/ cp = 1)
  /\ ShowHistogram
  /\ ~SqlMode

\* lines 1038-1046: the histogram request is sent
HistogramWanted(aggsDefined, cp, loadingHist) ==
  /\ (~aggsDefined \/ cp = 1)
  /\ ~loadingHist
  /\ ShowHistogram
  /\ ~SqlMode

\* the response of search request k, reporting total
SearchResponse(k, total) ==
  /\ k \in 1..Len(searchReqs)
  /\ LET req == searchReqs[k]
         idx == StoreIndex(partitions, partitionTotal, req)
         tot1 == IF idx > 0 THEN [partitionTotal EXCEPT ![idx] = total]
                 ELSE partitionTotal
         detail == [partitions |-> partitions, partitionTotal |-> tot1,
                    paginations |-> paginations]
         pag1 == IF idx > 0
                 THEN refreshPartitionPagination(detail, rowsPerPage,
                                                 currentPage).paginations
                 ELSE paginations
         rest == RemoveAt(searchReqs, k)
     IN /\ partitionTotal' = tot1
        /\ paginations' = pag1
        /\ hits' = MergeHits(hits, req, total)
        /\ scan_size' = ResponseScanSize(total)
        /\ took' = ResponseTook(total)
        /\ lastOp' = [Op("searchResponse") EXCEPT
                        !.stored = idx,
                        !.rebuilt = (idx > 0 /\ RebuildNeeded(paginations, currentPage)),
                        !.append = req.appendResult,
                        !.stale = req.stale,
                        !.answered = req,
                        !.total = total,
                        !.extracted = (currentPage <= Len(pag1)),
                        \* the test of lines 1038-1043 fails for
                        \* loadingHistogram alone
                        !.histogramBusy =
                           /\ currentPage <= Len(pag1)
                           /\ loadingHistogram
                           /\ HistogramWanted(MergeAggs(aggs, hits, req),
                                              currentPage, FALSE)]
        /\ aggs' = MergeAggs(aggs, hits, req)
        /\ IF currentPage <= Len(pag1)
           THEN \* the next slice is requested; getPaginatedData returns
                \* without waiting for its response, so the callback goes on
                \* to extractFields, updateGridColumns and the histogram
                /\ IF subpage > 0 /\ Len(pag1[currentPage]) > subpage
                   THEN /\ searchReqs' = Append(rest,
                             SliceRequest(
                               OverwritePaging(req, pag1[currentPage][subpage + 1]),
                               TrackTotalHits(req.track_total_hits, tot1,
                                              currentPage),
                               TRUE, req.histAggs))
                        /\ subpage' = subpage + 1
                   ELSE /\ searchReqs' = rest
                        /\ UNCHANGED subpage
                /\ IF HistogramWanted(aggs', currentPage, loadingHistogram)
                   THEN /\ loadingHistogram' = TRUE
                        /\ histReqs' = Append(histReqs, [aggs |-> req.histAggs])
                   ELSE UNCHANGED <<loadingHistogram, histReqs>>
                /\ loading' = FALSE
                /\ UNCHANGED <<errorMsg, errorCode>>
           ELSE \* paginations[currentPage - 1] is undefined: the then
                \* callback throws and the catch handler of the chain runs
                /\ searchReqs' = rest
                /\ loading' = FALSE
                /\ errorMsg' = ErrMsg(TypeErrorInput)
                /\ errorCode' = ErrCode(TypeErrorInput)
                /\ UNCHANGED <<subpage, loadingHistogram, histReqs>>
  /\ UNCHANGED <<swCache, cacheNames, liveVars, streamLists, rowsPerPage, pipeVars, configVars, sqlMode, sqlLimit, currentPage, datetime,
                 chartVars, partitions, partReqs>>

AfterFailureRetry(reqs, k) == reqs

\* the requests in flight after request k has failed: the catch handler sends
\* nothing, the chain of the page ends
AfterFailure(reqs, k) == RemoveAt(reqs, k)

\* the search request k fails with err: the catch handler
SearchFail(k, err) ==
  /\ k \in 1..Len(searchReqs)
  /\ searchReqs' = AfterFailure(searchReqs, k)
  /\ loading' = FALSE
  /\ errorMsg' = ErrMsg(err)
  /\ errorCode' = ErrCode(err)
  /\ lastOp' = [Op("searchFail") EXCEPT !.append = searchReqs[k].appendResult,
                                          !.err = err,
                                          !.answered = searchReqs[k]]
  /\ UNCHANGED <<swCache, cacheNames, liveVars, streamLists, rowsPerPage, pipeVars, configVars, sqlMode, sqlLimit, currentPage, datetime, chartVars, planVars,
                 hits, scan_size, took, subpage, aggs, loadingHistogram, partReqs, histReqs>>

\* ---------------------------------------------------- getHistogramQueryData
HistogramResponse(k) ==
  /\ k \in 1..Len(histReqs)
  /\ histReqs' = RemoveAt(histReqs, k)
  /\ loading' = FALSE
  /\ errorMsg' = ""
  /\ aggs' = histReqs[k].aggs
  /\ loadingHistogram' = FALSE
  /\ lastOp' = Op("histogramResponse")
  /\ UNCHANGED <<swCache, cacheNames, liveVars, streamLists, rowsPerPage, pipeVars, configVars, sqlMode, sqlLimit, currentPage, datetime, chartVars, planVars,
                 hits, scan_size, took, subpage, errorCode, partReqs, searchReqs>>

HistogramFail(k, err) ==
  /\ k \in 1..Len(histReqs)
  /\ histReqs' = RemoveAt(histReqs, k)
  /\ loadingHistogram' = FALSE
  /\ errorMsg' = ErrMsg(err)
  /\ errorCode' = ErrCode(err)
  /\ lastOp' = [Op("histogramFail") EXCEPT !.rejected = TRUE,
                                             !.unhandled = TRUE]
  /\ UNCHANGED <<swCache, cacheNames, liveVars, streamLists, rowsPerPage, pipeVars, configVars, sqlMode, sqlLimit, currentPage, datetime, chartVars, planVars,
                 hits, scan_size, took, subpage, aggs, loading, partReqs, searchReqs>>

\* ------------------------------------------------- calls made by the views
\* refreshPartitionPagination() called on its own
RefreshPartitionPagination ==
  LET detail == [partitions |-> partitions, partitionTotal |-> partitionTotal,
                 paginations |-> paginations]
  IN /\ partitions # <<>>
     /\ paginations' =
          refreshPartitionPagination(detail, rowsPerPage, currentPage).paginations
     /\ lastOp' = [Op("refresh") EXCEPT
                     !.rebuilt = RebuildNeeded(paginations, currentPage),
                     !.rep = IF lastOp.op = "refresh" THEN 2 ELSE 1]
     /\ UNCHANGED <<swCache, cacheNames, liveVars, streamLists, rowsPerPage, pipeVars, configVars, sqlMode, sqlLimit, currentPage, datetime, chartVars, partitions,
                    partitionTotal, hits, scan_size, took, subpage, aggs, errorMsg, errorCode,
                    loading, loadingHistogram, reqVars>>

\* buildSearch() called on its own
BuildSearch ==
  LET built == buildSearch(datetime, currentPage, chartInterval, chartKeyFormat)
  IN /\ chartInterval' = built.interval
     /\ chartKeyFormat' = built.format
     /\ hits' = IF built.clearsHits THEN <<>> ELSE hits
     /\ lastOp' = [Op("buildSearch") EXCEPT
                     !.invalid = InvalidRange(datetime),
                     !.built = built.kind,
                     !.notification =
                        IF built.kind = Undefined THEN "Invalid SQL Syntax"
                        ELSE ""]
     /\ UNCHANGED <<swCache, cacheNames, liveVars, streamLists, rowsPerPage, pipeVars, configVars, sqlMode, sqlLimit, currentPage, datetime, planVars, scan_size, took, subpage,
                    aggs, errorMsg, errorCode, loading, loadingHistogram,
                    reqVars>>

\* getStreamList: resetStreamData (with resetQueryData), then the stream list
\* is loaded; some says whether the organization has streams
GetStreamList(some) ==
  /\ streamLists' = some
  /\ currentPage' = 1
  /\ errorMsg' = IF some THEN "" ELSE "No stream found in selected organization!"
  /\ lastOp' = Op("getStreamList")
  /\ UNCHANGED <<swCache, cacheNames, liveVars, rowsPerPage, pipeVars, configVars, sqlMode, sqlLimit, datetime, chartVars, planVars, hits, scan_size, took, subpage,
                 aggs, errorCode, loading, loadingHistogram, reqVars>>

\* updateStreams: the stream list is read again
UpdateStreams(some) ==
  /\ streamLists
  /\ streamLists' = some
  /\ lastOp' = Op("updateStreams")
  /\ UNCHANGED <<swCache, cacheNames, liveVars, rowsPerPage, pipeVars, configVars, sqlMode, sqlLimit, currentPage, datetime, chartVars, planVars, hits, scan_size, took,
                 subpage, aggs, errorMsg, errorCode, loading, loadingHistogram,
                 reqVars>>

\* restoreUrlQueryParams with a query: meta.sqlMode and data.query are set
RestoreUrlQuery(mode, limit) ==
  /\ <<mode, limit>> # <<sqlMode, sqlLimit>>
  /\ sqlMode' = mode
  /\ sqlLimit' = limit
  /\ lastOp' = Op("restoreUrlQuery")
  /\ UNCHANGED <<swCache, cacheNames, liveVars, streamLists, rowsPerPage, pipeVars, configVars, currentPage,
                 datetime, chartVars, planVars, hits, scan_size, took, subpage,
                 aggs, errorMsg, errorCode, loading, loadingHistogram, reqVars>>

\* meta.refreshInterval is set (the refresh control, the URL parameters)
SetRefreshInterval(v) ==
  /\ refreshInterval # v
  /\ refreshInterval' = v
  /\ lastOp' = Op("setRefreshInterval")
  /\ UNCHANGED <<swCache, cacheNames, timerOn, streamLists, rowsPerPage, pipeVars, configVars, sqlMode, sqlLimit, currentPage, datetime,
                 chartVars, planVars, hits, scan_size, took, subpage, aggs, errorMsg, errorCode,
                 loading, loadingHistogram, reqVars>>

\* refreshData: the timer is set again when live refresh is on, cleared
\* otherwise
RefreshData ==
  /\ timerOn' = (refreshInterval > 0)
  /\ lastOp' = Op("refreshData")
  /\ UNCHANGED <<swCache, cacheNames, refreshInterval, streamLists, rowsPerPage, pipeVars, configVars, sqlMode, sqlLimit, currentPage,
                 datetime, chartVars, planVars, hits, scan_size, took, subpage, aggs, errorMsg,
                 errorCode, loading, loadingHistogram, reqVars>>

\* a tick of the timer: searchObj.loading = true; await getQueryData(false)
TimerTick ==
  /\ timerOn
  /\ getQueryData(FALSE, "refreshData")

\* the result table moves to page p
SetCurrentPage(p) ==
  /\ p # currentPage
  /\ currentPage' = p
  /\ lastOp' = Op("setCurrentPage")
  /\ UNCHANGED <<swCache, cacheNames, liveVars, streamLists, rowsPerPage, pipeVars, configVars, sqlMode, sqlLimit, datetime, chartVars, planVars, hits, scan_size, took, subpage,
                 aggs, errorMsg, errorCode, loading, loadingHistogram, reqVars>>

\* the histogram is switched on or off (the toggle of the view;
\* searchAroundData switches it off)
SetShowHistogram(show) ==
  /\ show # showHistogram
  /\ showHistogram' = show
  /\ lastOp' = Op("setShowHistogram")
  /\ UNCHANGED <<swCache, cacheNames, liveVars, streamLists, rowsPerPage,
                 pipeVars, sql_base64_enabled, sqlMode, sqlLimit, currentPage,
                 datetime, chartVars, planVars, hits, scan_size, took, subpage,
                 aggs, errorMsg, errorCode, loading, loadingHistogram, reqVars>>

\* the configuration of the backend is loaded into the store
LoadConfig(base64) ==
  /\ base64 # sql_base64_enabled
  /\ sql_base64_enabled' = base64
  /\ lastOp' = Op("loadConfig")
  /\ UNCHANGED <<swCache, cacheNames, liveVars, streamLists, rowsPerPage,
                 pipeVars, showHistogram, sqlMode, sqlLimit, currentPage,
                 datetime, chartVars, planVars, hits, scan_size, took, subpage,
                 aggs, errorMsg, errorCode, loading, loadingHistogram, reqVars>>

\* the date-time picker sets an absolute range
SetDateTime(range) ==
  /\ range # datetime
  /\ datetime' = range
  /\ lastOp' = Op("setDateTime")
  /\ UNCHANGED <<swCache, cacheNames, liveVars, streamLists, rowsPerPage, pipeVars, configVars, sqlMode, sqlLimit, currentPage, chartVars, planVars, hits, scan_size, took, subpage,
                 aggs, errorMsg, errorCode, loading, loadingHistogram, reqVars>>

\* ------------------------------------------------------------ service worker
\* cache names, kept as sequences of pieces: a name starts with another one
\* exactly when its pieces do.  cacheVersion is `O2-cache-${version}`
cacheVersion == <<"O2-cache-", "2">>

\* caches left by an earlier version, by a version whose name the current
\* one is a prefix of, and by another script of the origin
OtherCacheNames ==
  { <<"O2-cache-", "1">>, <<"O2-cache-", "2", "0">>, <<"workbox-precache">> }

\* cacheName.startsWith(prefix)
StartsWith(name, prefix) ==
  Len(name) >= Len(prefix) /\ SubSeq(name, 1, Len(prefix)) = prefix

StaleCacheAll(cacheName) == TRUE

\* the filter of the activate handler: the caches it deletes
StaleCache(cacheName) == ~StartsWith(cacheName, cacheVersion)

\* files the install handler lists from the manifest
FilesToCache == {"/web/index.html", "/web/assets/index.js"}

\* requests the pages send through the service worker
SwUrls == {"/web/assets/index.js", "/web/index.html", "/api/default/_search"}

SwRequests == [url : SwUrls, method : {"GET", "POST"}]

\* what fetch() resolves to, or its failure
NetworkOutcomes ==
  { [resolved |-> TRUE, status |-> 200, type |-> "basic"],
    [resolved |-> TRUE, status |-> 404, type |-> "basic"],
    [resolved |-> TRUE, status |-> 200, type |-> "cors"],
    [resolved |-> FALSE, status |-> 0, type |-> "error"] }

EndsWithJs(url) == url = "/web/assets/index.js"

BadResponseStatusOnly(response) == response.status # 200

\* the test that returns the network response without caching it
BadResponse(response) == response.status # 200 \/ response.type # "basic"

CacheMatchNever(cache, req) == FALSE

\* cache.match(event.request): a stored response for the URL of a GET request
CacheMatch(cache, req) == req.method = "GET" /\ req.url \in cache

\* the fetch event listener: req is event.request, net the outcome of
\* fetch(event.request), putOk whether cache.put succeeds, refetch whether
\* the second fetch of the POST branch reaches the network
FetchEvent(req, net, putOk, refetch) ==
  LET op == [Op("fetch") EXCEPT !.request = req]
  IN /\ \* caches.open(cacheVersion) creates the cache when it is missing
        cacheNames' = cacheNames \cup {cacheVersion}
     /\ UNCHANGED <<liveVars, streamLists, rowsPerPage, pipeVars, configVars, sqlMode, sqlLimit, currentPage, datetime,
                    chartVars, planVars, hits, scan_size, took, subpage, aggs, errorMsg,
                    errorCode, loading, loadingHistogram, reqVars>>
     /\ IF CacheMatch(swCache, req)
        THEN \* return response.clone()
             /\ lastOp' = [op EXCEPT !.answer = "cache"]
             /\ UNCHANGED swCache
        ELSE IF ~net.resolved
        THEN \* "Fetch failed": the error is thrown again
             /\ lastOp' = [op EXCEPT !.answer = "error", !.fetches = 1,
                                     !.response = net]
             /\ UNCHANGED swCache
        ELSE IF BadResponse(net)
        THEN \* clients are told "staledata" for a script; the response is
             \* returned as it is
             /\ lastOp' = [op EXCEPT !.answer = "network", !.fetches = 1,
                                     !.posted = EndsWithJs(req.url),
                                     !.response = net]
             /\ UNCHANGED swCache
        ELSE IF req.method = "POST"
        THEN \* fetch(event.request) is called again, then event.respondWith
             \* throws because the event was answered already; the catch
             \* handler throws the error again
             /\ lastOp' = [op EXCEPT !.answer = "error",
                                     !.fetches = IF refetch THEN 2 ELSE 1,
                                     !.response = net]
             /\ UNCHANGED swCache
        ELSE /\ lastOp' = [op EXCEPT !.answer = "network", !.fetches = 1,
                                     !.response = net]
             /\ swCache' = IF putOk THEN swCache \cup {req.url} ELSE swCache

\* the install event listener: the manifest is fetched, the cache cacheVersion
\* is opened and every listed file whose fetch succeeds (fetched) is put;
\* without the manifest the handler fails before it opens the cache
SwInstall(manifestOk, fetched) ==
  /\ swCache' = IF manifestOk THEN swCache \cup fetched ELSE swCache
  /\ cacheNames' = IF manifestOk THEN cacheNames \cup {cacheVersion}
                   ELSE cacheNames
  /\ lastOp' = Op("install")
  /\ UNCHANGED <<liveVars, streamLists, rowsPerPage, pipeVars, configVars, sqlMode, sqlLimit,
                 currentPage, datetime, chartVars, planVars, hits, scan_size,
                 took, subpage, aggs, errorMsg, errorCode, loading,
                 loadingHistogram, reqVars>>

\* the activate event listener: every cache the filter selects is deleted
SwActivate ==
  /\ cacheNames' = { name \in cacheNames : ~StaleCache(name) }
  /\ swCache' = IF StaleCache(cacheVersion) THEN {} ELSE swCache
  /\ lastOp' = Op("activate")
  /\ UNCHANGED <<liveVars, streamLists, rowsPerPage, pipeVars, configVars, sqlMode, sqlLimit,
                 currentPage, datetime, chartVars, planVars, hits, scan_size,
                 took, subpage, aggs, errorMsg, errorCode, loading,
                 loadingHistogram, reqVars>>

\* a worker of another version or another script of the origin opens a cache
OtherCacheOpened(name) ==
  /\ name \notin cacheNames
  /\ cacheNames' = cacheNames \cup {name}
  /\ lastOp' = Op("cacheOpened")
  /\ UNCHANGED <<swCache, liveVars, streamLists, rowsPerPage, pipeVars, configVars, sqlMode,
                 sqlLimit, currentPage, datetime, chartVars, planVars, hits,
                 scan_size, took, subpage, aggs, errorMsg, errorCode, loading,
                 loadingHistogram, reqVars>>

\* the message event listener: "skipWaiting" deletes the cache cacheVersion
SwMessage(data) ==
  /\ swCache' = IF data = "skipWaiting" THEN {} ELSE swCache
  /\ cacheNames' = IF data = "skipWaiting" THEN cacheNames \ {cacheVersion}
                   ELSE cacheNames
  /\ lastOp' = Op("message")
  /\ UNCHANGED <<liveVars, streamLists, rowsPerPage, pipeVars, configVars, sqlMode, sqlLimit, currentPage, datetime,
                 chartVars, planVars, hits, scan_size, took, subpage, aggs, errorMsg, errorCode,
                 loading, loadingHistogram, reqVars>>

\* ------------------------------------------------------------ environments
\* partition lists the backend can report: up to n partitions, in either order
PartitionLists(n) ==
  { [i \in 1..m |-> PartitionAt(i)] : m \in 0..n } \cup
  { [i \in 1..m |-> PartitionAt(m + 1 - i)] : m \in 2..n }

\* The planner on its own: refreshPartitionPagination applied to partition
\* lists whose totals earlier responses have stored (or not yet, -1), at any
\* current page; the plan on entry is the one getQueryPartitions built.
PlannerTotals == {-1} \cup (0..MaxPlannerTotal) \cup {300}

RECURSIVE TotalsOfLength(_)
TotalsOfLength(n) ==
  IF n = 0 THEN {<<>>}
  ELSE { Append(tot, t) : tot \in TotalsOfLength(n - 1), t \in PlannerTotals }

InitPlanner ==
  /\ swCache = {}
  /\ cacheNames = {}
  /\ InitPipeline
  /\ showHistogram = TRUE
  /\ sql_base64_enabled = FALSE
  /\ refreshInterval = 0
  /\ timerOn = FALSE
  /\ streamLists = TRUE
  /\ rowsPerPage \in PageSizes
  /\ sqlMode = FALSE
  /\ sqlLimit = NoLimit
  /\ currentPage \in 1..MaxPage
  /\ datetime = [startTime |-> Time(0, 0), endTime |-> Time(900, 0)]
  /\ chartInterval = "1 second"
  /\ chartKeyFormat = "HH:mm:ss"
  /\ \E n \in 1..MaxPlannerParts :
       /\ partitions = [i \in 1..n |-> PartitionAt(i)]
       /\ partitionTotal \in TotalsOfLength(n)
  /\ paginations = InitialPaginations(partitions, rowsPerPage)
  /\ hits = <<>>
  /\ scan_size = 0
  /\ took = 0
  /\ subpage = 0
  /\ aggs = FALSE
  /\ errorMsg = ""
  /\ errorCode = 0
  /\ loading = FALSE
  /\ loadingHistogram = FALSE
  /\ partReqs = <<>>
  /\ searchReqs = <<>>
  /\ histReqs = <<>>
  /\ lastOp = Op("init")

NextPlanner ==
  \/ RefreshPartitionPagination
  \/ \E p \in 1..MaxPage : SetCurrentPage(p)

SpecPlanner == InitPlanner /\ [][NextPlanner]_vars

\* The planner inside a session: one query at a time, paged through by the
\* user, the plan refreshed between fetches; every request succeeds.
NextPlan ==
  \/ /\ ChainsInFlight = 0
     /\ \/ getQueryData(FALSE, "handleQueryData")
        \/ getQueryData(TRUE, "view")
  \/ ~streamLists /\ GetStreamList(TRUE)
  \/ \E list \in PartitionLists(MaxParts) : PartitionResponse(1, list)
  \/ \E total \in Totals : SearchResponse(1, total)
  \/ ChainsInFlight = 0 /\ RefreshPartitionPagination
  \/ \E p \in 1..MaxPage : SetCurrentPage(p)

InitPlan == \E R \in PageSizes : InitWith(R)

SpecPlan == InitPlan /\ [][NextPlan]_vars

\* The interval selector: buildSearch over time ranges whose spans lie at,
\* one microsecond below and one microsecond above every rung of the ladder.
Span(sec, usec) == [startTime |-> Time(0, 0), endTime |-> Time(sec, usec)]

IntervalRanges ==
  { Span(0, 0), Span(900, 0) } \cup
  UNION { { Span(Ladder[k].t[1] - 1, Micro - 1),
            Span(Ladder[k].t[1], 0),
            Span(Ladder[k].t[1], 1) } : k \in 1..Len(Ladder) } \cup
  { [startTime |-> Time(100, 500000), endTime |-> Time(1900, 499999)],
    [startTime |-> Time(100, 500000), endTime |-> Time(1900, 500000)],
    [startTime |-> Time(100, 500000), endTime |-> Time(7300, 500001)],
    [startTime |-> Time(900, 0), endTime |-> Time(0, 0)] }

NextInterval ==
  \/ GetStreamList(TRUE)
  \/ BuildSearch
  \/ \E range \in IntervalRanges : SetDateTime(range)

SpecInterval == Init /\ [][NextInterval]_vars

\* The executor: one query at a time over short partition lists, with
\* pagination, failing requests and the histogram; the streams are loaded
\* once and the time range is changed between queries.
Next ==
  \/ /\ ChainsInFlight = 0
     /\ \/ getQueryData(FALSE, "handleQueryData")
        \/ getQueryData(TRUE, "view")
  \/ ~streamLists /\ GetStreamList(TRUE)
  \/ \E list \in PartitionLists(MaxExecParts) : PartitionResponse(1, list)
  \/ PartitionFail(1)
  \/ \E total \in ExecTotals : SearchResponse(1, total)
  \/ \E err \in ErrorInputs : SearchFail(1, err)
  \/ HistogramResponse(1)
  \/ \E err \in ErrorInputs : HistogramFail(1, err)
  \/ \E p \in 1..MaxPage : SetCurrentPage(p)
  \/ /\ ChainsInFlight = 0
     /\ \E range \in SessionRanges : SetDateTime(range)

Spec == Init /\ [][Next]_vars

\* Live refresh: the timer of refreshData ticks while earlier requests are
\* still in flight; every request succeeds, responses arrive in any order.
RefreshIntervals == {0, 5}

NextLive ==
  \/ GetStreamList(TRUE)
  \/ \E v \in RefreshIntervals : SetRefreshInterval(v)
  \/ RefreshData
  \/ /\ ChainsInFlight < MaxInFlight
     /\ \/ TimerTick
        \/ getQueryData(FALSE, "handleQueryData")
  \/ \E k \in 1..MaxInFlight, list \in PartitionLists(MaxLiveParts) :
       PartitionResponse(k, list)
  \/ \E k \in 1..MaxInFlight, total \in ExecTotals : SearchResponse(k, total)
  \/ HistogramResponse(1)

SpecLive == Init /\ [][NextLive]_vars

\* Streams come and go: the stream list is loaded with or without entries
\* between queries over a single partition.
NextStreams ==
  \/ \E some \in BOOLEAN : GetStreamList(some)
  \/ \E some \in BOOLEAN : UpdateStreams(some)
  \/ /\ ChainsInFlight = 0
     /\ \/ \E caller \in {"handleQueryData", "loadLogsData"} :
             getQueryData(FALSE, caller)
        \/ getQueryData(TRUE, "view")
  \/ \E list \in PartitionLists(MaxLiveParts) : PartitionResponse(1, list)
  \/ \E total \in ExecTotals : SearchResponse(1, total)
  \/ HistogramResponse(1)
  \/ \E range \in SessionRanges : SetDateTime(range)

SpecStreams == Init /\ [][NextStreams]_vars

\* The promise of getQueryData: queries with and without streams, from callers
\* that await it, over partition requests that succeed or fail.  The backend
\* answers every request it was sent, or the request fails.
BackendAnswers ==
  \/ \E list \in PartitionLists(MaxLiveParts) : PartitionResponse(1, list)
  \/ PartitionFail(1)
  \/ \E total \in ExecTotals : SearchResponse(1, total)
  \/ HistogramResponse(1)

NextPromise ==
  \/ \E some \in BOOLEAN : GetStreamList(some)
  \/ /\ ChainsInFlight = 0
     /\ \/ \E caller \in {"handleQueryData", "loadLogsData"} :
             getQueryData(FALSE, caller)
        \/ getQueryData(TRUE, "view")
  \/ BackendAnswers

SpecPromise == Init /\ [][NextPromise]_vars /\ WF_vars(BackendAnswers)

\* The service worker on its own: install, activate, fetch and message events
\* in any order, among caches that others open.
NextSw ==
  \/ \E req \in SwRequests, net \in NetworkOutcomes, putOk \in BOOLEAN,
        refetch \in BOOLEAN : FetchEvent(req, net, putOk, refetch)
  \/ \E data \in {"skipWaiting", "ping"} : SwMessage(data)
  \/ \E manifestOk \in BOOLEAN, fetched \in SUBSET FilesToCache :
       SwInstall(manifestOk, fetched)
  \/ SwActivate
  \/ \E name \in OtherCacheNames : OtherCacheOpened(name)

SpecSw == Init /\ [][NextSw]_vars

\* The pipeline editor on its own: the functions of useDnD.js in any order,
\* with the editor view opening a saved pipeline and the form of a node.
NextPipeline ==
  \/ \E node \in PaletteNodes : onDragStart(node)
  \/ onDrop
  \/ \E changes \in {0, 1} : onEdgesChange(changes)
  \/ \E source \in KnownNodeIds, target \in KnownNodeIds :
       onConnect([source |-> source, target |-> target])
  \/ \E newNode \in FormInputs : addNode(newNode)
  \/ \E nodeId \in KnownNodeIds : deletePipelineNode(nodeId)
  \/ resetPipelineData
  \/ OpenSavedPipeline
  \/ \E i \in 1..MaxNodes : OpenNodeForm(i)

SpecPipeline == Init /\ [][NextPipeline]_vars

\* buildSearch under every setting it reads: page, histogram switch, base64
\* encoding, SQL mode and time range.
NextBuild ==
  \/ ~streamLists /\ GetStreamList(TRUE)
  \/ BuildSearch
  \/ \E show \in BOOLEAN : SetShowHistogram(show)
  \/ \E base64 \in BOOLEAN : LoadConfig(base64)
  \/ \E mode \in BOOLEAN, limit \in SqlLimits : RestoreUrlQuery(mode, limit)
  \/ \E p \in 1..MaxPage : SetCurrentPage(p)
  \/ \E range \in SessionRanges : SetDateTime(range)

SpecBuild == Init /\ [][NextBuild]_vars

\* SQL mode: queries with and without a LIMIT clause, in and out of SQL mode,
\* one query at a time over short partition lists.
NextSql ==
  \/ ~streamLists /\ GetStreamList(TRUE)
  \/ /\ ChainsInFlight = 0
     /\ \/ \E mode \in BOOLEAN, limit \in SqlLimits : RestoreUrlQuery(mode, limit)
        \/ getQueryData(FALSE, "handleQueryData")
        \/ getQueryData(TRUE, "view")
  \/ \E list \in PartitionLists(MaxExecParts) : PartitionResponse(1, list)
  \/ \E total \in ExecTotals : SearchResponse(1, total)
  \/ HistogramResponse(1)
  \/ \E p \in 1..MaxPage : SetCurrentPage(p)

SpecSql == Init /\ [][NextSql]_vars

\* ==================================================================== claims
\* helpers of the formulas
DurationIs(sec, usec) ==
  /\ ~TimeGT(datetime.startTime, datetime.endTime)
  /\ TimeSub(datetime.endTime, datetime.startTime) = Time(sec, usec)

AfterBuildSearch ==
  lastOp.op = "buildSearch" /\ ~TimeGT(datetime.startTime, datetime.endTime)

\* the plan was rebuilt by the operation that ran last
AfterRebuild == lastOp.op \in {"refresh", "searchResponse"} /\ lastOp.rebuilt

\* the positions <<page, k>> of the slices of partition i
SlicesOf(i) ==
  { pk \in UNION { {<<p, k>> : k \in 1..Len(paginations[p])} :
                   p \in 1..Len(paginations) } :
      paginations[pk[1]][pk[2]].startTime = partitions[i][1] }

RECURSIVE SumTotals(_)
SumTotals(tot) == IF tot = <<>> THEN 0 ELSE tot[1] + SumTotals(Tail(tot))

AllTotalsKnown == \A i \in 1..Len(partitionTotal) : partitionTotal[i] >= 0

\* ---- C1
C1_Scenario ==
  /\ rowsPerPage = 250
  /\ currentPage = 1
  /\ partitions = <<PartitionAt(1), PartitionAt(2)>>
  /\ partitionTotal = <<300, 300>>
  /\ lastOp.op = "refresh"

\* C1: with partitions [[0,1000],[1000,2000]], totals [300,300], rowsPerPage
\* 250 and currentPage 1, the plan after refreshPartitionPagination has exactly
\* three pages: [p1 from 0 size 250]; [p1 from 250 size 50, p2 from 0 size
\* 200]; [p2 from 200 size 100].
C1_ScenarioPlan ==
  C1_Scenario =>
    paginations =
      << <<PageSlice(PartitionAt(1), 0, 250)>>,
         <<PageSlice(PartitionAt(1), 250, 50), PageSlice(PartitionAt(2), 0, 200)>>,
         <<PageSlice(PartitionAt(2), 200, 100)>> >>

C1_Witness == C1_Scenario /\ Len(paginations) = 3

\* ---- C2
\* C2: after a rebuild with every total known, N the sum of the totals and
\* ceil(N / rowsPerPage) within currentPage + 10, the plan has exactly
\* ceil(N / rowsPerPage) pages, every page but the last sums to rowsPerPage and
\* the last sums to N mod rowsPerPage (rowsPerPage when that is 0).
C2_PageCountAndSums ==
  LET N == SumTotals(partitionTotal)
      pages == CeilDiv(N, rowsPerPage)
  IN (AfterRebuild /\ partitions # <<>> /\ AllTotalsKnown
        /\ pages <= currentPage + 10)
     => /\ Len(paginations) = pages
        /\ \A p \in 1..Len(paginations) :
             SumSizes(paginations[p]) =
               IF p < Len(paginations) \/ N % rowsPerPage = 0
               THEN rowsPerPage ELSE N % rowsPerPage

\* ---- C3
\* C3: after a rebuild no slice of a partition with known total T extends past
\* the total: from + size <= T.
C3_SliceWithinTotal ==
  AfterRebuild =>
    \A i \in 1..Len(partitions) :
      partitionTotal[i] >= 0 =>
        \A pk \in SlicesOf(i) :
          paginations[pk[1]][pk[2]].from + paginations[pk[1]][pk[2]].size
            <= partitionTotal[i]

\* ---- C4
\* C4: a call of refreshPartitionPagination that directly follows another one
\* (partitions, totals, rowsPerPage and currentPage unchanged) leaves the plan
\* as the first call left it.
C4_RefreshIdempotent ==
  [][(lastOp.op = "refresh" /\ lastOp'.op = "refresh")
       => paginations' = paginations]_vars

C4_Witness ==
  /\ lastOp.op = "refresh"
  /\ lastOp.rep = 2
  /\ \E i \in 1..Len(partitionTotal) : partitionTotal[i] > 0
  /\ \E p \in 1..Len(paginations) : Len(paginations[p]) >= 2

\* ---- C5
\* the records placed before position <<p, k>> in its page
FillBefore(pk) == SumSizes(SubSeq(paginations[pk[1]], 1, pk[2] - 1))

\* C5 as claimed: in every plan a partition whose total is still -1 has exactly
\* one slice, with from = 0 and size = rowsPerPage, whatever the fill level of
\* its page.
C5_ProvisionalSliceFull ==
  \A i \in 1..Len(partitions) :
    partitionTotal[i] = -1 =>
      /\ Cardinality(SlicesOf(i)) = 1
      /\ \A pk \in SlicesOf(i) :
           /\ paginations[pk[1]][pk[2]].from = 0
           /\ paginations[pk[1]][pk[2]].size = rowsPerPage

\* C5 amended: in every plan a partition whose total is still -1 has exactly
\* one slice, with from = 0; its size is rowsPerPage when the slices placed
\* before it in its page sum to 0 or to rowsPerPage, and rowsPerPage minus that
\* sum otherwise.
C5_ProvisionalSliceToppedOff ==
  \A i \in 1..Len(partitions) :
    partitionTotal[i] = -1 =>
      /\ Cardinality(SlicesOf(i)) = 1
      /\ \A pk \in SlicesOf(i) :
           /\ paginations[pk[1]][pk[2]].from = 0
           /\ paginations[pk[1]][pk[2]].size =
                IF FillBefore(pk) = rowsPerPage THEN rowsPerPage
                ELSE rowsPerPage - FillBefore(pk)

C5_Witness ==
  \E i \in 1..Len(partitions) :
    /\ partitionTotal[i] = -1
    /\ \E pk \in SlicesOf(i) :
         /\ pk[2] >= 2
         /\ FillBefore(pk) > 0
         /\ paginations[pk[1]][pk[2]].size = rowsPerPage - FillBefore(pk)

\* ---- C6
\* C6: once a search response that stored a partition total has been handled,
\* the plan is the plan rebuilt from the stored totals, whatever the number of
\* partitions and the current page.
C6_PlanRebuiltOnTotal ==
  (lastOp.op = "searchResponse" /\ lastOp.stored > 0) =>
    paginations =
      Rebuild(<<>>, partitions, partitionTotal, rowsPerPage, currentPage)

\* ---- C7
\* C7 as claimed: buildSearch chooses "15 second" for a span of 1,799,999,999
\* microseconds, "30 second" for 1,800,000,000 and "5 minute" for
\* 7,200,000,001.
C7_IntervalPointsClaimed ==
  AfterBuildSearch =>
    /\ DurationIs(1799, 999999) => chartInterval = "15 second"
    /\ DurationIs(1800, 0) => chartInterval = "30 second"
    /\ DurationIs(7200, 1) => chartInterval = "5 minute"

\* C7 amended: buildSearch chooses "10 second" for a span of 1,799,999,999
\* microseconds, "15 second" for 1,800,000,000 and "1 minute" for
\* 7,200,000,001, whatever the start time and the interval chosen before.
C7_IntervalPoints ==
  AfterBuildSearch =>
    /\ DurationIs(1799, 999999) => chartInterval = "10 second"
    /\ DurationIs(1800, 0) => chartInterval = "15 second"
    /\ DurationIs(7200, 1) => chartInterval = "1 minute"

C7_Witness ==
  /\ AfterBuildSearch
  /\ DurationIs(7200, 1)
  /\ datetime.startTime # Time(0, 0)
  /\ chartInterval = "1 minute"

\* ---- C8
\* the ladder as the claim states it: the entry of the largest threshold the
\* span d (microseconds, as a pair) reaches
AtLeastMicros(d, sec) == d[1] >= sec

ClaimedEntry(d) ==
  IF AtLeastMicros(d, 2592000) THEN <<"1 day", "YYYY-MM-DD">>
  ELSE IF AtLeastMicros(d, 604800) THEN <<"1 hour", "MM-DD HH:mm">>
  ELSE IF AtLeastMicros(d, 86400) THEN <<"30 minute", "MM-DD HH:mm">>
  ELSE IF AtLeastMicros(d, 21600) THEN <<"5 minute", "MM-DD HH:mm">>
  ELSE IF AtLeastMicros(d, 7200) THEN <<"1 minute", "MM-DD HH:mm">>
  ELSE IF AtLeastMicros(d, 3600) THEN <<"30 second", "HH:mm:ss">>
  ELSE IF AtLeastMicros(d, 1800) THEN <<"15 second", "HH:mm:ss">>
  ELSE <<"10 second", "HH:mm:ss">>

\* C8: for every span d >= 0 buildSearch leaves in chartInterval and
\* chartKeyFormat the entry of the largest ladder threshold d reaches, and
\* 10 second / HH:mm:ss below every threshold, whatever interval an earlier
\* query left.
C8_LargestThresholdWins ==
  AfterBuildSearch =>
    <<chartInterval, chartKeyFormat>> =
      ClaimedEntry(TimeSub(datetime.endTime, datetime.startTime))

C8_Witness ==
  /\ AfterBuildSearch
  /\ DurationIs(2592000, 0)
  /\ chartInterval = "1 day"
  /\ chartKeyFormat = "YYYY-MM-DD"

\* ---- C9
\* C9: when the search request of a later slice of a page fails, the hits
\* accumulated for the page are left as they were and the error message is
\* non-empty (a string that is not "", not the undefined value) once the catch
\* handler has run.
C9_FailureKeepsHits ==
  [][(lastOp'.op = "searchFail" /\ lastOp'.append)
       => /\ hits' = hits
          /\ errorMsg' # ""
          /\ errorMsg' # Undefined]_vars

\* ---- C10
\* C10: a getQueryData call made while the start time is greater than the end
\* time sends no partition request and no search request, with isPagination
\* false and with isPagination true.
C10_NoRequestOnInvalidRange ==
  [][(lastOp'.op = "getQueryData"
        /\ TimeGT(datetime.startTime, datetime.endTime))
       => /\ partReqs' = partReqs
          /\ searchReqs' = searchReqs
          /\ histReqs' = histReqs]_vars

C10_Witness ==
  /\ lastOp.op = "getQueryData"
  /\ lastOp.isPagination
  /\ TimeGT(datetime.startTime, datetime.endTime)
  /\ HasSlice(paginations, currentPage, 1)
  /\ searchReqs = <<>>

\* ---- C11
\* C11: a getQueryData call made while the start time is greater than the end
\* time leaves the current page, the accumulated hits, the error message and
\* the pagination plan (partitions, totals, pages) exactly as they were.
C11_InvalidRangeChangesNothing ==
  [][(lastOp'.op = "getQueryData"
        /\ TimeGT(datetime.startTime, datetime.endTime))
       => /\ currentPage' = currentPage
          /\ hits' = hits
          /\ errorMsg' = errorMsg
          /\ planVars' = planVars]_vars

\* ---- C12
\* C12: no failure ends as an unhandled promise rejection: whenever a step
\* rejects the promise of getQueryData or of getHistogramQueryData, a caller
\* handles the rejection.
C12_NoUnhandledRejection == lastOp.rejected => ~lastOp.unhandled

\* ---- C13
\* C13: a tick of the live-refresh timer never starts a new partition / search
\* request sequence while a search request started earlier is still in
\* flight.
C13_TickWaitsForSearch ==
  [][(lastOp'.op = "getQueryData" /\ lastOp'.caller = "refreshData"
        /\ Len(partReqs') > Len(partReqs))
       => searchReqs = <<>>]_vars

\* ---- C14
\* C14: the response of a search request issued before the newest query
\* started changes nothing: hits, partition totals and plan stay as they
\* were.
C14_StaleResponseIgnored ==
  [][(lastOp'.op = "searchResponse" /\ lastOp'.stale)
       => /\ hits' = hits
          /\ partitionTotal' = partitionTotal
          /\ paginations' = paginations]_vars

\* ---- C15
\* the request r asks for the slice sl
AsksFor(r, sl) ==
  /\ r.start_time = sl.startTime
  /\ r.end_time = sl.endTime
  /\ r.from = sl.from
  /\ r.size = sl.size

\* C15: within the fetch of one logical page at most one slice request is in
\* flight; the first request asks for the first slice of the page, and the
\* request of slice k + 1 is sent only by the step that receives the response
\* of slice k.
C15_SlicesSequential ==
  [][/\ Len(searchReqs') <= 1
     /\ (searchReqs' # <<>> /\ searchReqs' # searchReqs) =>
          IF searchReqs'[1].appendResult
          THEN /\ lastOp'.op = "searchResponse"
               /\ searchReqs # <<>>
               /\ subpage' = subpage + 1
               /\ AsksFor(searchReqs'[1], paginations'[currentPage'][subpage'])
          ELSE /\ lastOp'.op \in {"getQueryData", "partitionResponse"}
               /\ subpage' = 1
               /\ AsksFor(searchReqs'[1], paginations'[currentPage'][1])]_vars

C15_Witness ==
  /\ lastOp.op = "searchResponse"
  /\ subpage = 2
  /\ Len(searchReqs) = 1
  /\ searchReqs[1].appendResult
  /\ AsksFor(searchReqs[1], paginations[currentPage][2])

\* ---- C16
\* C16: the response of a later slice of a logical page adds its hits after
\* the hits accumulated from the earlier slices of the page, so that the hits
\* of a completed page are the concatenation of the hits of its slices in
\* fetch order.
C16_HitsConcatenated ==
  [][(lastOp'.op = "searchResponse" /\ lastOp'.append)
       => hits' = hits \o ResponseHits(lastOp'.answered, lastOp'.total)]_vars

\* ---- C17
\* C17: a page fetch that finds no page to fetch (the partition response
\* carried an empty list, or the current page lies past the pages of the plan)
\* sends no search request, surfaces no error (no notification, no rejection,
\* no error message) and leaves an empty result.
C17_NoPageIsEmptyResult ==
  [][(\/ lastOp'.op = "partitionResponse" /\ partitions' = <<>>
      \/ /\ lastOp'.op = "getQueryData" /\ lastOp'.isPagination
         /\ ~lastOp'.invalid /\ ~lastOp'.noStream
         /\ currentPage > Len(paginations))
       => /\ searchReqs' = searchReqs
          /\ lastOp'.notification = ""
          /\ ~lastOp'.rejected
          /\ errorMsg' = ""
          /\ hits' = <<>>]_vars

\* ---- C18
\* C18: with an empty stream list getQueryData sends no partition request and
\* no search request, clears the loading flag, rejects, and leaves the
\* accumulated query results (hits, aggs, totals, plan) unchanged.
C18_NoStreamNoQuery ==
  [][(lastOp'.op = "getQueryData" /\ ~streamLists)
       => /\ reqVars' = reqVars
          /\ loading' = FALSE
          /\ lastOp'.rejected
          /\ hits' = hits
          /\ aggs' = aggs
          /\ planVars' = planVars]_vars

C18_Witness ==
  /\ lastOp.op = "getQueryData"
  /\ lastOp.noStream
  /\ ~streamLists
  /\ hits # <<>>
  /\ partitions # <<>>

\* ---- C19
\* C19: when a search request fails with a backend error code, errorCode is
\* that code; errorMsg is the message mapped for the code when the table has
\* an entry for it (20003: the full text search message) and the raw error
\* string of the backend otherwise (400).
C19_ErrorCodeAndMessage ==
  [][(lastOp'.op = "searchFail" /\ lastOp'.err.response
        /\ lastOp'.err.code # UndefinedCode)
       => /\ errorCode' = lastOp'.err.code
          /\ lastOp'.err.code = 20003 =>
               errorMsg' =
                 "Click here to configure a full text search field to the stream."
          /\ lastOp'.err.code = 400 => errorMsg' = lastOp'.err.error]_vars

C19_Witness ==
  /\ lastOp.op = "searchFail"
  /\ lastOp.err.code = 20003
  /\ errorCode = 20003
  /\ errorMsg = "Click here to configure a full text search field to the stream."

\* ---- C20
\* C20: the fetch handler is cache-first: for a GET request whose URL is in
\* the current-version cache it answers with the cached response and calls
\* fetch() not at all; fetch() is called only when the cache has no match.
C20_CacheFirst ==
  [][lastOp'.op = "fetch" =>
       LET hit == lastOp'.request.method = "GET"
                    /\ lastOp'.request.url \in swCache
       IN /\ hit => (lastOp'.answer = "cache" /\ lastOp'.fetches = 0)
          /\ lastOp'.fetches > 0 => ~hit
          /\ ~hit => lastOp'.fetches > 0]_vars

C20_Witness ==
  /\ lastOp.op = "fetch"
  /\ lastOp.request.method = "GET"
  /\ lastOp.request.url \in swCache
  /\ lastOp.answer = "cache"
  /\ lastOp.fetches = 0

\* ---- C21
\* C21: in every plan, whatever totals are known and unknown, every slice has
\* from >= 0 and size >= 0.
C21_SlicesNonNegative ==
  \A p \in 1..Len(paginations) :
    \A k \in 1..Len(paginations[p]) :
      /\ paginations[p][k].from >= 0
      /\ paginations[p][k].size >= 0


\* ---- C22
\* C22: in a rebuilt plan a partition whose known total is 0 has no slice in
\* any page.
C22_EmptyPartitionSkipped ==
  AfterRebuild =>
    \A i \in 1..Len(partitions) :
      partitionTotal[i] = 0 => SlicesOf(i) = {}

\* ---- C23
\* the forEach of the rebuild as the claim states it: no partition is visited
\* once the plan has more than currentPage + 10 pages
RECURSIVE StoppingForEach(_, _, _, _, _, _)
StoppingForEach(st, parts, tot, R, cp, index) ==
  IF index > Len(parts) \/ Len(st.pag) > cp + 10 THEN st
  ELSE StoppingForEach(PartitionStep(st, parts[index], tot[index], R, cp),
                       parts, tot, R, cp, index + 1)

\* C23: once a rebuild has materialized more than currentPage + 10 pages it
\* adds no further slice, neither for the partition it is at nor for a later
\* one: the rebuilt plan is the plan of a generation that stops there.
C23_GenerationStops ==
  AfterRebuild =>
    paginations =
      StoppingForEach([pag |-> <<>>, pageNumber |-> 0], partitions,
                      partitionTotal, rowsPerPage, currentPage, 1).pag

\* ---- C24
\* the step sent a slice request: it is the last of the requests in flight
SliceIssued ==
  IF lastOp'.op = "searchResponse" THEN subpage' = subpage + 1
  ELSE /\ lastOp'.op \in {"getQueryData", "partitionResponse"}
       /\ Len(searchReqs') = Len(searchReqs) + 1

\* C24: a slice request carries track_total_hits = true exactly when the total
\* of the partition the slice belongs to is still -1 at the moment the request
\* is sent.
C24_TrackTotalHitsPerPartition ==
  [][SliceIssued =>
       LET r == searchReqs'[Len(searchReqs')]
       IN r.track_total_hits <=>
            \E i \in 1..Len(partitions') :
              /\ partitions'[i][1] = r.start_time
              /\ partitionTotal'[i] = -1]_vars

\* ---- C25
\* C25: between two computations of the partition list the list of totals
\* keeps its length and the total of a partition changes at most once: only
\* from -1, only to the non-negative total that a search response for that
\* partition (same start time) reports; no later response changes it.
C25_TotalSetOnce ==
  [][lastOp'.op # "partitionResponse" =>
       /\ Len(partitionTotal') = Len(partitionTotal)
       /\ \A i \in 1..Len(partitionTotal) :
            partitionTotal'[i] # partitionTotal[i] =>
              /\ partitionTotal[i] = -1
              /\ lastOp'.op = "searchResponse"
              /\ lastOp'.answered.start_time = partitions[i][1]
              /\ partitionTotal'[i] = lastOp'.total
              /\ lastOp'.total >= 0]_vars

\* a later response for a partition reports another total than the stored one
C25_Witness ==
  /\ lastOp.op = "searchResponse"
  /\ lastOp.stored = 0
  /\ \E i \in 1..Len(partitions) :
       /\ partitions[i][1] = lastOp.answered.start_time
       /\ partitionTotal[i] >= 0
       /\ partitionTotal[i] # lastOp.total

\* ---- C26
\* C26: outside live refresh a search response with from > 0 appends its hits
\* to the accumulated hits and adds its scan_size and took to the running
\* totals; a response with from = 0 replaces hits, scan_size and took.
C26_AppendOrReplace ==
  [][(lastOp'.op = "searchResponse" /\ refreshInterval = 0) =>
       LET req == lastOp'.answered
           total == lastOp'.total
       IN IF req.from > 0
          THEN /\ hits' = hits \o ResponseHits(req, total)
               /\ scan_size' = scan_size + ResponseScanSize(total)
               /\ took' = took + ResponseTook(total)
          ELSE /\ hits' = ResponseHits(req, total)
               /\ scan_size' = ResponseScanSize(total)
               /\ took' = ResponseTook(total)]_vars

\* ---- C27
\* C27: in live refresh a response with from = 0 that arrives while hits are
\* held keeps the held hits; what it adds, in front of them, is at most the
\* records of the response (those strictly newer than the newest held one).
C27_LiveMergeKeepsHits ==
  [][(/\ lastOp'.op = "searchResponse"
      /\ refreshInterval > 0
      /\ lastOp'.answered.from = 0
      /\ hits # <<>>)
       => \/ hits' = hits
          \/ /\ Len(hits') = Len(hits) + 1
             /\ Tail(hits') = hits
             /\ hits'[1].startTime = lastOp'.answered.start_time
             /\ hits'[1].n <= HitCount(lastOp'.answered, lastOp'.total)]_vars

\* ---- C28
\* C28: extractFields and updateGridColumns run only after the responses of
\* all slices of the page have been received: a step that runs them sends no
\* further slice request for the page.
C28_ExtractAfterAllSlices ==
  [][lastOp'.extracted => ~SliceIssued]_vars

\* ---- C29
\* C29: the step that handles the failure of a slice request sends no request
\* and leaves the loading flag false, and after it no slice request is sent
\* until a new fetch starts (getQueryData, or the partition response of one).
C29_FailureAbortsPage ==
  [][/\ lastOp'.op = "searchFail" => (searchReqs' = <<>> /\ ~loading')
     /\ (searchReqs = <<>> /\ searchReqs' # <<>>) =>
          lastOp'.op \in {"getQueryData", "partitionResponse"}]_vars

\* the first slice of a page of two slices has failed
C29_Witness ==
  /\ lastOp.op = "searchFail"
  /\ ~lastOp.append
  /\ HasSlice(paginations, currentPage, 2)
  /\ AsksFor(lastOp.answered, paginations[currentPage][1])
  /\ searchReqs = <<>>
  /\ ~loading

\* ---- C30
\* C30: every search request carries the start_time, end_time, from and size
\* of the plan slice it fetches (the slice at subpage of the current page),
\* whatever from and size buildSearch produced, a LIMIT / OFFSET of SQL mode
\* included; so its time range is a partition of the current partition list.
C30_RequestIsSlice ==
  [][SliceIssued =>
       LET r == searchReqs'[Len(searchReqs')]
       IN /\ HasSlice(paginations', currentPage', subpage')
          /\ AsksFor(r, paginations'[currentPage'][subpage'])
          /\ \E i \in 1..Len(partitions') :
               <<r.start_time, r.end_time>> = partitions'[i]]_vars

\* a request was sent for a statement with LIMIT 10 OFFSET 5 and asks for the
\* slice, not for what buildSearch produced
C30_Witness ==
  /\ lastOp.op = "partitionResponse"
  /\ sqlMode
  /\ sqlLimit.seperator = "offset"
  /\ Len(searchReqs) = 1
  /\ searchReqs[1].from = 0
  /\ searchReqs[1].size = rowsPerPage
  /\ AsksFor(searchReqs[1], paginations[currentPage][1])

\* ---- C31
\* C31: after the activate handler every cache that exists has a name that
\* starts with cacheVersion, and the cache cacheVersion, when it existed, is
\* still there with its content.
C31_ActivateKeepsCurrent ==
  [][lastOp'.op = "activate" =>
       /\ \A name \in cacheNames' : StartsWith(name, cacheVersion)
       /\ cacheVersion \in cacheNames =>
            (cacheVersion \in cacheNames' /\ swCache' = swCache)]_vars

C31_Witness ==
  /\ lastOp.op = "activate"
  /\ cacheNames = {cacheVersion, <<"O2-cache-", "2", "0">>}
  /\ swCache # {}

\* ---- C32
\* C32: a fetch event adds the response of the network to the cache only when
\* it has status 200 and type "basic" and the request is not a POST; in every
\* other case the content of the cache is what it was, and what is added is
\* the entry of the request.
C32_CachesOnlyGoodResponses ==
  [][lastOp'.op = "fetch" =>
       /\ swCache \subseteq swCache'
       /\ swCache' \subseteq swCache \cup {lastOp'.request.url}
       /\ swCache' # swCache =>
            /\ lastOp'.response.resolved
            /\ lastOp'.response.status = 200
            /\ lastOp'.response.type = "basic"
            /\ lastOp'.request.method # "POST"]_vars

C32_Witness ==
  /\ lastOp.op = "fetch"
  /\ lastOp.answer = "network"
  /\ lastOp.response = [resolved |-> TRUE, status |-> 200, type |-> "basic"]
  /\ lastOp.request.method = "GET"
  /\ swCache = {lastOp.request.url}

\* ---- C33
\* C33: after deletePipelineNode(id) the pipeline has no node with that id and
\* no edge from or to it, every other node and every other element of the
\* edge list is where it was, and nothing is selected.
C33_DeleteRemovesNodeAndEdges ==
  [][lastOp'.op = "deletePipelineNode" =>
       LET id == lastOp'.nodeId
           old == CurrentPipeline
           new == CurrentPipeline'
       IN /\ new.nodes = SelectSeq(old.nodes, LAMBDA node : node.id # id)
          /\ new.edges =
               SelectSeq(old.edges,
                         LAMBDA edge : edge.source # id /\ edge.target # id)
          /\ currentSelectedNodeData' = NullNode]_vars

\* ---- C34
\* C34: onConnect(connection) appends exactly one element to the edge list,
\* the edge e<source>-<target> from source to target, and every element of
\* the list is then an edge.
C34_ConnectAppendsOneEdge ==
  [][lastOp'.op = "onConnect" =>
       /\ CurrentPipeline'.edges =
            Append(CurrentPipeline.edges, NewEdge(lastOp'.connection))
       /\ \A i \in DOMAIN CurrentPipeline'.edges :
            CurrentPipeline'.edges[i].kind = "edge"]_vars

\* ---- C39
\* C39: after resetPipelineData the pipeline has no nodes and no edges and
\* dirtyFlag, isEditPipeline, isEditNode and hasInputNode are false.
C39_ResetEmptiesPipeline ==
  [][lastOp'.op = "resetPipelineData" =>
       /\ CurrentPipeline'.nodes = <<>>
       /\ CurrentPipeline'.edges = <<>>
       /\ ~dirtyFlag' /\ ~isEditPipeline' /\ ~isEditNode'
       /\ ~hasInputNode']_vars

\* ---- C40
\* C40: once addNode has changed a node of a pipeline that is being edited,
\* dirtyFlag is true until resetPipelineData.
C40_DirtyUntilReset == nodeEdited => dirtyFlag

\* ---- C35
\* getQueryData has no call of resolve: its promise is settled by the steps
\* that reject it, and by no other.
QueryPromisePending ==
  /\ lastOp.op \in {"getQueryData", "partitionResponse"}
  /\ ~lastOp.rejected

QueryPromiseSettled ==
  /\ lastOp.op \in {"getQueryData", "partitionResponse", "partitionFail"}
  /\ lastOp.rejected

\* C35: the promise getQueryData returns is settled in the end, whichever way
\* the call goes, so that the code that awaits it goes on.
C35_PromiseSettles == QueryPromisePending ~> QueryPromiseSettled

\* ---- C37
\* C37: every histogram request that is sent carries the histogram
\* aggregation, also the one of a query that was submitted from a page after
\* the first.
C37_HistogramRequestHasAggs ==
  \A i \in DOMAIN histReqs : histReqs[i].aggs

\* ---- C38
\* C38: at most one histogram request is in flight, and loadingHistogram is
\* true exactly while one is.
C38_OneHistogramRequest ==
  /\ Len(histReqs) <= 1
  /\ loadingHistogram <=> (Len(histReqs) = 1)

C38_Witness ==
  /\ lastOp.op = "searchResponse"
  /\ lastOp.histogramBusy
  /\ Len(histReqs) = 1
  /\ loadingHistogram

\* ---- C36
\* C36: out of SQL mode and for a valid time range buildSearch returns a
\* request, whatever the page, the histogram switch and the base64 setting
\* are.
C36_BuildSearchReturnsRequest ==
  [][(lastOp'.op = "buildSearch" /\ ~lastOp'.invalid /\ ~sqlMode) =>
       lastOp'.built = "req"]_vars

====
